---- MODULE Spec2Model ----
(***************************************************************************)
(* zifu: repair of ZIP archives whose entry names are stored in a legacy   *)
(* encoding.  The model covers the container layer (EOCD locator, central  *)
(* directory table, local file header accessor), the decoders and the      *)
(* encoding selector, and the archive object that loads, diagnoses,        *)
(* converts and re-serializes an archive.  Files are sequences of bytes    *)
(* (0..255); file positions are 0-based as in the source.                  *)
(***************************************************************************)
EXTENDS Integers, Sequences, FiniteSets, TLC

VARIABLES
    arch,        \* description the input file was produced from (never changes)
    input,       \* bytes of the input file behind file_handler
    pc,          \* "start", "scan", "cd", "loaded", "failed"; "decoder" when the
                 \* state is that of a decoder and its input, no archive
    cursor,      \* position of file_handler
    pos,         \* ZipEOCD::from_reader: the position the search restarts from
    eocd_magic_point,  \* ZipEOCD::from_reader: magic bytes matched so far
    eocd,        \* InputZIPArchive.eocd
    cd_entries,  \* InputZIPArchive.cd_entries
    error,       \* error returned by the last fallible call ("none" if Ok)
    output,      \* bytes the last operation wrote to dest_handler
    last         \* the last operation called on the archive, and its result

vars == <<arch, input, pc, cursor, pos, eocd_magic_point, eocd, cd_entries, error, output, last>>

-----------------------------------------------------------------------------
(* Bounds of the model *)

\* largest number of entries of the archives built from the entry kinds
MaxEntries == 2

-----------------------------------------------------------------------------
(* Bytes and little-endian integers *)

Min(a, b) == IF a < b THEN a ELSE b

\* write_u16::<LE>
LE16(v) == <<v % 256, (v \div 256) % 256>>

\* A u32 is held as its two 16-bit halves.
\* n as u32
as_u32(n) == [lo |-> n % 65536, hi |-> (n \div 65536) % 65536]

\* v as u64, used as a position or a length.  Every value from 2^30 on is far past
\* the end of any input here and stands as 2^30.
as_u64(v) == IF v.hi >= 16384 THEN 1073741824 ELSE (v.hi * 65536) + v.lo

\* write_u32::<LE>
LE32(v) == LE16(v.lo) \o LE16(v.hi)

\* read_u16::<LE> of the two bytes at position p
U16At(s, p) == s[p + 1] + 256 * s[p + 2]

\* read_u32::<LE> of the four bytes at position p
U32At(s, p) == [lo |-> U16At(s, p), hi |-> U16At(s, p + 2)]

\* where a reader at position p is after read_exact met the end of the input
EofCursor(s, p) == IF p >= Len(s) THEN p ELSE Len(s)

\* number of bytes a reader at position p can still read (a seek past the end is legal)
Remaining(s, p) == IF p >= Len(s) THEN 0 ELSE Len(s) - p

\* n bytes at position p (all of them available)
Slice(s, p, n) == SubSeq(s, p + 1, p + n)

\* read.take(n).read_to_end(..): the bytes read, at most n, fewer at end of file
TakeToEnd(s, p, n) == Slice(s, p, Min(n, Remaining(s, p)))

\* F(v) with v evaluated once
Let(v, F(_)) == CHOOSE y \in { F(x) : x \in {v} } : TRUE

\* bit test and bit set on a 16-bit flag word, the mask a power of two
HasBit(flags, mask) == (flags \div mask) % 2 = 1

SetBit(flags, mask) == IF HasBit(flags, mask) THEN flags ELSE flags + mask

-----------------------------------------------------------------------------
(* Program constants *)

EOCD_MAGIC == <<80, 75, 5, 6>>

CD_MAGIC == <<80, 75, 1, 2>>

LOCAL_FILE_MAGIC == <<80, 75, 3, 4>>

DATA_ENCRYPTED_FLAG_BIT == 1

DATA_DESCRIPTOR_EXISTS_FLAG_BIT == 8

UTF8_FLAG_BIT == 2048

\* u16::MAX, the longest EOCD comment
U16_MAX == 65535

\* std::mem::size_of::<ZipEOCD>() on a 64-bit target
SIZE_OF_ZipEOCD == 64

-----------------------------------------------------------------------------
(* EOCD locator: zip_eocd.rs *)

\* ZipEOCD::empty()
ZipEOCD_empty ==
    [ eocd_disk_index |-> 0, cd_start_disk_index |-> 0, n_cd_entries_in_disk |-> 0,
      n_cd_entries |-> 0, cd_size |-> as_u32(0), cd_starting_position |-> as_u32(0),
      comment_length |-> 0, comment |-> <<>>,
      starting_position_with_signature |-> 0,
      starting_position_without_signature |-> 0 ]

\* from_reader_next_to_signature that reads comment_length bytes of comment and
\* does not look for the end of the file after them
from_reader_next_to_signature_noeof(self, s, p) ==
    IF Remaining(s, p) < 18
    THEN [io |-> TRUE, ok |-> FALSE, eocd |-> self, cursor |-> Len(s)]
    ELSE LET clen == U16At(s, p + 16)
             got  == TakeToEnd(s, p + 18, clen)
         IN [ io |-> FALSE,
              ok |-> Len(got) = clen,
              eocd |-> [ eocd_disk_index |-> U16At(s, p),
                         cd_start_disk_index |-> U16At(s, p + 2),
                         n_cd_entries_in_disk |-> U16At(s, p + 4),
                         n_cd_entries |-> U16At(s, p + 6),
                         cd_size |-> U32At(s, p + 8),
                         cd_starting_position |-> U32At(s, p + 12),
                         comment_length |-> clen,
                         comment |-> self.comment \o got,
                         starting_position_with_signature |-> p - 4,
                         starting_position_without_signature |-> p ],
              cursor |-> p + 18 + Len(got) ]

\* ZipEOCD::from_reader_next_to_signature: self is the record being filled, the
\* reader stands at p right after a magic.  io: one of the fixed-field reads hit
\* end of file (the ? returns the io::Error).  The comment is read with
\* take(comment_length + 1).read_to_end(&mut self.comment), which APPENDS to the
\* buffer self already holds; ok compares the count of bytes read.
from_reader_next_to_signature(self, s, p) ==
    IF Remaining(s, p) < 18
    THEN [io |-> TRUE, ok |-> FALSE, eocd |-> self, cursor |-> Len(s)]
    ELSE LET clen == U16At(s, p + 16)
             got  == TakeToEnd(s, p + 18, clen + 1)
         IN [ io |-> FALSE,
              ok |-> Len(got) = clen,
              eocd |-> [ eocd_disk_index |-> U16At(s, p),
                         cd_start_disk_index |-> U16At(s, p + 2),
                         n_cd_entries_in_disk |-> U16At(s, p + 4),
                         n_cd_entries |-> U16At(s, p + 6),
                         cd_size |-> U32At(s, p + 8),
                         cd_starting_position |-> U32At(s, p + 12),
                         comment_length |-> clen,
                         comment |-> self.comment \o got,
                         starting_position_with_signature |-> p - 4,
                         starting_position_without_signature |-> p ],
              cursor |-> p + 18 + Len(got) ]

\* zip_eocd_left_bound_pos
zip_eocd_left_bound_pos(zip_size) ==
    IF zip_size >= U16_MAX + SIZE_OF_ZipEOCD + Len(EOCD_MAGIC)
    THEN zip_size - (U16_MAX + SIZE_OF_ZipEOCD + Len(EOCD_MAGIC))
    ELSE 0

\* the search loop that resumes where the failed check stopped reading instead
\* of seeking back to pos
scan_step_skip(s, st) ==
    IF st.cur >= Len(s)
    THEN [st EXCEPT !.kind = "InvalidZipArchive"]
    ELSE LET b == s[st.cur + 1] IN
         IF EOCD_MAGIC[st.eocd_magic_point + 1] /= b
         THEN [st EXCEPT !.cur = @ + 1, !.pos = @ + 1,
                         !.eocd_magic_point = IF EOCD_MAGIC[1] = b THEN 1 ELSE 0]
         ELSE IF st.eocd_magic_point + 1 >= Len(EOCD_MAGIC)
              THEN LET r == from_reader_next_to_signature(st.eocd, s, st.cur + 1) IN
                   [ kind |-> IF r.io THEN "IOError" ELSE IF r.ok THEN "Ok" ELSE "continue",
                     cur |-> r.cursor,
                     pos |-> IF r.io \/ r.ok THEN st.pos ELSE st.pos + 1,
                     eocd_magic_point |-> IF r.io \/ r.ok THEN st.eocd_magic_point + 1 ELSE 0,
                     eocd |-> r.eocd ]
              ELSE [st EXCEPT !.cur = @ + 1, !.pos = @ + 1, !.eocd_magic_point = @ + 1]

\* ZipEOCD::from_reader, one turn of the while loop: st.cur is the reader's
\* position, st.pos the variable pos, st.eocd the record that every candidate
\* fills in turn.  kind is "continue" while the loop goes on, "Ok" when the
\* record is returned, else the error returned.
scan_step(s, st) ==
    IF st.cur >= Len(s)
    THEN [st EXCEPT !.kind = "InvalidZipArchive"]
    ELSE LET b == s[st.cur + 1] IN
         IF EOCD_MAGIC[st.eocd_magic_point + 1] /= b
         THEN [st EXCEPT !.cur = @ + 1, !.pos = @ + 1,
                         !.eocd_magic_point = IF EOCD_MAGIC[1] = b THEN 1 ELSE 0]
         ELSE IF st.eocd_magic_point + 1 >= Len(EOCD_MAGIC)
              THEN LET r == from_reader_next_to_signature(st.eocd, s, st.cur + 1) IN
                   [ kind |-> IF r.io THEN "IOError" ELSE IF r.ok THEN "Ok" ELSE "continue",
                     cur |-> IF r.io \/ r.ok THEN r.cursor ELSE st.pos,
                     pos |-> IF r.io \/ r.ok THEN st.pos ELSE st.pos + 1,
                     eocd_magic_point |-> IF r.io \/ r.ok THEN st.eocd_magic_point + 1 ELSE 0,
                     eocd |-> r.eocd ]
              ELSE [st EXCEPT !.cur = @ + 1, !.pos = @ + 1, !.eocd_magic_point = @ + 1]

-----------------------------------------------------------------------------
(* Central directory table: zip_central_directory.rs *)

\* ZipCDEntry::is_encoded_in_utf8
is_encoded_in_utf8(cd) == HasBit(cd.general_purpose_flags, UTF8_FLAG_BIT)

\* ZipCDEntry::is_encrypted_data
is_encrypted_data(cd) == HasBit(cd.general_purpose_flags, DATA_ENCRYPTED_FLAG_BIT)

\* check_unsupported that lets encrypted entries and other disks through
check_unsupported_none(cd) == "none"

\* ZipCDEntry::check_unsupported: the error, "none" for Ok
check_unsupported(cd) ==
    IF cd.disk_number_start /= 0 THEN "UnsupportedZipArchive"
    ELSE IF is_encrypted_data(cd) THEN "UnsupportedZipArchive"
    ELSE "none"

\* The 42 bytes of fixed fields at position p, as ZipCDEntry::empty() filled by the
\* reads of read_from_eocd_next_signature before check_unsupported
cd_fixed_fields(s, p) ==
    [ version_made_by |-> U16At(s, p),
      version_required_to_extract |-> U16At(s, p + 2),
      general_purpose_flags |-> U16At(s, p + 4),
      compression_method |-> U16At(s, p + 6),
      last_mod_time |-> U16At(s, p + 8),
      last_mod_date |-> U16At(s, p + 10),
      crc32 |-> U32At(s, p + 12),
      compressed_size |-> U32At(s, p + 16),
      uncompressed_size |-> U32At(s, p + 20),
      file_name_length |-> U16At(s, p + 24),
      extra_field_length |-> U16At(s, p + 26),
      file_comment_length |-> U16At(s, p + 28),
      disk_number_start |-> U16At(s, p + 30),
      internal_file_attributes |-> U16At(s, p + 32),
      external_file_attributes |-> U32At(s, p + 34),
      local_header_position |-> U32At(s, p + 38),
      file_name_raw |-> <<>>, extra_field |-> <<>>, file_comment |-> <<>>,
      starting_position_with_signature |-> p - 4,
      starting_position_without_signature |-> p ]

\* ZipCDEntry::read_from_eocd_next_signature, the reader at p right after the magic:
\* kind is "Ok" with the entry, or the error; cursor is where the reader stands
\* when the call returns (at end of file after a failed read_exact)
read_from_eocd_next_signature(s, p) ==
    IF Remaining(s, p) < 42
    THEN [kind |-> "IOError", cursor |-> EofCursor(s, p)]
    ELSE LET f  == cd_fixed_fields(s, p)
             nm == TakeToEnd(s, p + 42, f.file_name_length)
             ex == TakeToEnd(s, p + 42 + Len(nm), f.extra_field_length)
             cm == TakeToEnd(s, p + 42 + Len(nm) + Len(ex), f.file_comment_length)
         IN IF check_unsupported(f) /= "none"
            THEN [kind |-> check_unsupported(f), cursor |-> p + 42]
            ELSE IF Len(nm) /= f.file_name_length
            THEN [kind |-> "InvalidZipArchive", cursor |-> p + 42 + Len(nm)]
            ELSE IF Len(ex) /= f.extra_field_length
            THEN [kind |-> "InvalidZipArchive", cursor |-> p + 42 + Len(nm) + Len(ex)]
            ELSE IF Len(cm) /= f.file_comment_length
            THEN [kind |-> "InvalidZipArchive",
                  cursor |-> p + 42 + Len(nm) + Len(ex) + Len(cm)]
            ELSE [kind |-> "Ok",
                  cd |-> [f EXCEPT !.file_name_raw = nm, !.extra_field = ex,
                                   !.file_comment = cm],
                  cursor |-> p + 42 + Len(nm) + Len(ex) + Len(cm)]

\* ZipCDEntry::read_and_generate_from_signature, the reader at p
read_and_generate_from_signature(s, p) ==
    IF Remaining(s, p) < 4
    THEN [kind |-> "IOError", cursor |-> EofCursor(s, p)]
    ELSE IF Slice(s, p, 4) /= CD_MAGIC
    THEN [kind |-> "InvalidZipArchive", cursor |-> p + 4]
    ELSE read_from_eocd_next_signature(s, p + 4)

\* ZipCDEntry::set_utf8_encoded_flag
cd_set_utf8_encoded_flag(cd) ==
    [cd EXCEPT !.general_purpose_flags = SetBit(@, UTF8_FLAG_BIT)]

\* ZipCDEntry::set_file_name_from_slice (name.len() as u16)
cd_set_file_name_from_slice(cd, name) ==
    [cd EXCEPT !.file_name_length = Len(name) % 65536, !.file_name_raw = name]

\* ZipCDEntry::set_file_coment_from_slice (comment.len() as u16)
cd_set_file_coment_from_slice(cd, comment) ==
    [cd EXCEPT !.file_comment_length = Len(comment) % 65536, !.file_comment = comment]

\* ZipCDEntry::write: the bytes written
cd_write(cd) ==
    CD_MAGIC \o LE16(cd.version_made_by) \o LE16(cd.version_required_to_extract)
    \o LE16(cd.general_purpose_flags) \o LE16(cd.compression_method)
    \o LE16(cd.last_mod_time) \o LE16(cd.last_mod_date) \o LE32(cd.crc32)
    \o LE32(cd.compressed_size) \o LE32(cd.uncompressed_size)
    \o LE16(cd.file_name_length) \o LE16(cd.extra_field_length)
    \o LE16(cd.file_comment_length) \o LE16(cd.disk_number_start)
    \o LE16(cd.internal_file_attributes) \o LE32(cd.external_file_attributes)
    \o LE32(cd.local_header_position)
    \o cd.file_name_raw \o cd.extra_field \o cd.file_comment

\* ZipCDEntry::write: the count it returns
cd_write_count(cd) ==
    46 + cd.file_name_length + cd.extra_field_length + cd.file_comment_length

\* ZipEOCD::write: the bytes written
eocd_write(e) ==
    EOCD_MAGIC \o LE16(e.eocd_disk_index) \o LE16(e.cd_start_disk_index)
    \o LE16(e.n_cd_entries_in_disk) \o LE16(e.n_cd_entries) \o LE32(e.cd_size)
    \o LE32(e.cd_starting_position) \o LE16(e.comment_length) \o e.comment

\* ZipEOCD::is_single_archive
is_single_archive(e) ==
    e.eocd_disk_index = 0 /\ e.n_cd_entries = e.n_cd_entries_in_disk

\* ZipEOCD::is_zip64
is_zip64(e) ==
    \/ e.cd_starting_position = [lo |-> U16_MAX, hi |-> U16_MAX]
    \/ e.cd_size = [lo |-> U16_MAX, hi |-> U16_MAX]
    \/ e.n_cd_entries = U16_MAX
    \/ e.n_cd_entries_in_disk = U16_MAX
    \/ e.eocd_disk_index = U16_MAX
    \/ e.cd_start_disk_index = U16_MAX

\* check_unsupported_zip_type without the test for ZIP64
eocd_check_split_only(e) ==
    IF ~is_single_archive(e) THEN "UnsupportedZipArchive" ELSE "none"

\* ZipEOCD::check_unsupported_zip_type: the error, "none" for Ok
eocd_check_unsupported_zip_type(e) ==
    IF ~is_single_archive(e) THEN "UnsupportedZipArchive"
    ELSE IF is_zip64(e) THEN "UnsupportedZipArchive"
    ELSE "none"

-----------------------------------------------------------------------------
(* Local file header accessor: zip_local_file_header.rs *)

\* ZipLocalFileHeader::has_data_descriptor_by_flag
has_data_descriptor_by_flag(lh) ==
    HasBit(lh.general_purpose_flags, DATA_DESCRIPTOR_EXISTS_FLAG_BIT)

\* The 26 bytes of fixed fields at position p, as ZipLocalFileHeader::empty() filled
\* by the first reads of read_without_signature
lfh_fixed_fields(s, p) ==
    [ version_required_to_extract |-> U16At(s, p),
      general_purpose_flags |-> U16At(s, p + 2),
      compression_method |-> U16At(s, p + 4),
      last_mod_time |-> U16At(s, p + 6),
      last_mod_date |-> U16At(s, p + 8),
      crc32 |-> U32At(s, p + 10),
      compressed_size |-> U32At(s, p + 14),
      uncompressed_size |-> U32At(s, p + 18),
      file_name_length |-> U16At(s, p + 22),
      extra_field_length |-> U16At(s, p + 24),
      file_name_raw |-> <<>>, extra_field |-> <<>>, compressed_data |-> <<>>,
      data_descriptor |-> <<>>,
      starting_position_with_signature |-> p - 4,
      starting_position_without_signature |-> p ]

\* ZipDataDescriptor::from_reader, as the 12 bytes it reads (crc32, compressed_size,
\* uncompressed_size), which ZipDataDescriptor::write writes back field by field
data_descriptor_fields(s, p) ==
    LE32(U32At(s, p)) \o LE32(U32At(s, p + 4)) \o LE32(U32At(s, p + 8))

\* ZipLocalFileHeader::read_without_signature, the reader at p right after the magic.
\* The payload is read with take(self.compressed_size): the size field of the local
\* header itself.  data_descriptor is <<>> for None.
read_without_signature(s, p) ==
    IF Remaining(s, p) < 26
    THEN [kind |-> "IOError", cursor |-> EofCursor(s, p)]
    ELSE Let(lfh_fixed_fields(s, p), LAMBDA f :
         LET nm == TakeToEnd(s, p + 26, f.file_name_length)
             ex == TakeToEnd(s, p + 26 + Len(nm), f.extra_field_length)
             cd == TakeToEnd(s, p + 26 + Len(nm) + Len(ex), as_u64(f.compressed_size))
             q  == p + 26 + Len(nm) + Len(ex) + Len(cd)
         IN IF Len(nm) /= f.file_name_length
            THEN [kind |-> "InvalidZipArchive", cursor |-> p + 26 + Len(nm)]
            ELSE IF Len(ex) /= f.extra_field_length
            THEN [kind |-> "InvalidZipArchive", cursor |-> p + 26 + Len(nm) + Len(ex)]
            ELSE IF Len(cd) /= as_u64(f.compressed_size)
            THEN [kind |-> "InvalidZipArchive", cursor |-> q]
            ELSE IF has_data_descriptor_by_flag(f)
            THEN IF Remaining(s, q) < 12
                 THEN [kind |-> "IOError", cursor |-> EofCursor(s, p)]
                 ELSE [kind |-> "Ok",
                       lh |-> [f EXCEPT !.file_name_raw = nm, !.extra_field = ex,
                                        !.compressed_data = cd,
                                        !.data_descriptor = data_descriptor_fields(s, q)],
                       cursor |-> q + 12]
            ELSE [kind |-> "Ok",
                  lh |-> [f EXCEPT !.file_name_raw = nm, !.extra_field = ex,
                                   !.compressed_data = cd],
                  cursor |-> q])

\* ZipLocalFileHeader::from_central_directory
from_central_directory(s, cd) ==
    LET lhp == as_u64(cd.local_header_position) IN
    IF Remaining(s, lhp) < 4
    THEN [kind |-> "IOError", cursor |-> EofCursor(s, lhp)]
    ELSE IF Slice(s, lhp, 4) /= LOCAL_FILE_MAGIC
    THEN [kind |-> "InvalidZipArchive", cursor |-> lhp + 4]
    ELSE read_without_signature(s, lhp + 4)

\* ZipLocalFileHeader::set_utf8_encoded_flag
lfh_set_utf8_encoded_flag(lh) ==
    [lh EXCEPT !.general_purpose_flags = SetBit(@, UTF8_FLAG_BIT)]

\* ZipLocalFileHeader::set_file_name_from_slice (name.len() as u16)
lfh_set_file_name_from_slice(lh, name) ==
    [lh EXCEPT !.file_name_length = Len(name) % 65536, !.file_name_raw = name]

\* ZipLocalFileHeader::write: the bytes written
lfh_write(lh) ==
    LOCAL_FILE_MAGIC \o LE16(lh.version_required_to_extract)
    \o LE16(lh.general_purpose_flags) \o LE16(lh.compression_method)
    \o LE16(lh.last_mod_time) \o LE16(lh.last_mod_date) \o LE32(lh.crc32)
    \o LE32(lh.compressed_size) \o LE32(lh.uncompressed_size)
    \o LE16(lh.file_name_length) \o LE16(lh.extra_field_length)
    \o lh.file_name_raw \o lh.extra_field \o lh.compressed_data \o lh.data_descriptor

\* ZipLocalFileHeader::write: the count it returns
lfh_write_count(lh) ==
    30 + lh.file_name_length + lh.extra_field_length + as_u64(lh.compressed_size)
    + (IF lh.data_descriptor /= <<>> THEN 12 ELSE 0)

-----------------------------------------------------------------------------
(* Decoders: filename_decoder.rs.  A String is the sequence of its code points;   *)
(* lossless decoding returns [some |-> FALSE] for None.                            *)

REPLACEMENT_CHARACTER == 65533

None == [some |-> FALSE, text |-> <<>>]

Some(text) == [some |-> TRUE, text |-> text]

is_ascii(c) == c <= 127

IsCont(s, i) == i <= Len(s) /\ s[i] >= 128 /\ s[i] <= 191

InRange(s, i, lo, hi) == i <= Len(s) /\ s[i] >= lo /\ s[i] <= hi

\* One step of Rust's UTF-8 validation at index i: the length of the sequence, its
\* code point, or the length of the invalid chunk (a maximal invalid prefix) that
\* from_utf8_lossy replaces by one U+FFFD
utf8_step(s, i) ==
    LET b == s[i] IN
    IF b <= 127 THEN [valid |-> TRUE, len |-> 1, cp |-> b]
    ELSE IF b >= 194 /\ b <= 223
    THEN IF IsCont(s, i + 1)
         THEN [valid |-> TRUE, len |-> 2, cp |-> (b - 192) * 64 + (s[i + 1] - 128)]
         ELSE [valid |-> FALSE, len |-> 1, cp |-> REPLACEMENT_CHARACTER]
    ELSE IF b >= 224 /\ b <= 239
    THEN IF ~InRange(s, i + 1, IF b = 224 THEN 160 ELSE 128, IF b = 237 THEN 159 ELSE 191)
         THEN [valid |-> FALSE, len |-> 1, cp |-> REPLACEMENT_CHARACTER]
         ELSE IF ~IsCont(s, i + 2)
         THEN [valid |-> FALSE, len |-> 2, cp |-> REPLACEMENT_CHARACTER]
         ELSE [valid |-> TRUE, len |-> 3,
               cp |-> (b - 224) * 4096 + (s[i + 1] - 128) * 64 + (s[i + 2] - 128)]
    ELSE IF b >= 240 /\ b <= 244
    THEN IF ~InRange(s, i + 1, IF b = 240 THEN 144 ELSE 128, IF b = 244 THEN 143 ELSE 191)
         THEN [valid |-> FALSE, len |-> 1, cp |-> REPLACEMENT_CHARACTER]
         ELSE IF ~IsCont(s, i + 2)
         THEN [valid |-> FALSE, len |-> 2, cp |-> REPLACEMENT_CHARACTER]
         ELSE IF ~IsCont(s, i + 3)
         THEN [valid |-> FALSE, len |-> 3, cp |-> REPLACEMENT_CHARACTER]
         ELSE [valid |-> TRUE, len |-> 4,
               cp |-> (b - 240) * 262144 + (s[i + 1] - 128) * 4096
                      + (s[i + 2] - 128) * 64 + (s[i + 3] - 128)]
    ELSE [valid |-> FALSE, len |-> 1, cp |-> REPLACEMENT_CHARACTER]

\* std::str::from_utf8(..).is_ok()
RECURSIVE utf8_valid_from(_, _)
utf8_valid_from(s, i) ==
    IF i > Len(s) THEN TRUE
    ELSE utf8_step(s, i).valid /\ utf8_valid_from(s, i + utf8_step(s, i).len)

\* String::from_utf8_lossy, from index i
RECURSIVE utf8_lossy_from(_, _)
utf8_lossy_from(s, i) ==
    IF i > Len(s) THEN <<>>
    ELSE <<utf8_step(s, i).cp>> \o utf8_lossy_from(s, i + utf8_step(s, i).len)

from_utf8_lossy(s) == utf8_lossy_from(s, 1)

\* char::encode_utf8
encode_utf8(c) ==
    IF c < 128 THEN <<c>>
    ELSE IF c < 2048 THEN <<192 + (c \div 64), 128 + (c % 64)>>
    ELSE IF c < 65536
    THEN <<224 + (c \div 4096), 128 + ((c \div 64) % 64), 128 + (c % 64)>>
    ELSE <<240 + (c \div 262144), 128 + ((c \div 4096) % 64), 128 + ((c \div 64) % 64),
           128 + (c % 64)>>

\* String::as_bytes: the encodings of the chars one after the other, the text
\* taken by halves
RECURSIVE as_bytes(_)
as_bytes(text) ==
    Let(text, LAMBDA t :
        IF Len(t) = 0 THEN <<>>
        ELSE IF Len(t) = 1 THEN encode_utf8(t[1])
        ELSE as_bytes(SubSeq(t, 1, Len(t) \div 2))
             \o as_bytes(SubSeq(t, (Len(t) \div 2) + 1, Len(t))))

\* hfs_nfd: the composed character of a base and a combining mark that the HFS+
\* decomposition table lists (the pairs the inputs can contain), 0 for none
hfs_compose_pair(base, mark) ==
    IF base = 101 /\ mark = 769 THEN 233        \* e + U+0301 -> U+00E9
    ELSE IF base = 101 /\ mark = 768 THEN 232   \* e + U+0300 -> U+00E8
    ELSE 0

\* hfs_nfd::compose_from_hfs_nfd
RECURSIVE compose_from_hfs_nfd(_)
compose_from_hfs_nfd(text) ==
    IF Len(text) < 2 THEN text
    ELSE IF hfs_compose_pair(text[1], text[2]) /= 0
    THEN <<hfs_compose_pair(text[1], text[2])>> \o compose_from_hfs_nfd(Tail(Tail(text)))
    ELSE <<Head(text)>> \o compose_from_hfs_nfd(Tail(text))

\* encoding_rs index jis0208, the row of lead byte 0x83 / trail 0x40..0x7E
\* (katakana, pointers 376..438); 0 for the pointers the inputs never form
jis0208(pointer) ==
    IF pointer >= 376 /\ pointer <= 438 THEN 12449 + (pointer - 376) ELSE 0

\* encoding_rs SHIFT_JIS decoder: [text, had_errors], lead = 0 for no pending lead
RECURSIVE sjis_decode(_, _, _)
sjis_decode(s, i, lead) ==
    IF i > Len(s)
    THEN IF lead /= 0 THEN [text |-> <<REPLACEMENT_CHARACTER>>, had_errors |-> TRUE]
         ELSE [text |-> <<>>, had_errors |-> FALSE]
    ELSE LET b == s[i] IN
         IF lead /= 0
         THEN LET offset == IF b < 127 THEN 64 ELSE 65
                  lead_offset == IF lead < 160 THEN 129 ELSE 193
                  pointer == IF (b >= 64 /\ b <= 126) \/ (b >= 128 /\ b <= 252)
                             THEN (lead - lead_offset) * 188 + b - offset ELSE -1
                  cp == IF pointer >= 8836 /\ pointer <= 10715 THEN 57344 - 8836 + pointer
                        ELSE IF pointer >= 0 THEN jis0208(pointer) ELSE 0
                  rest == sjis_decode(s, IF cp = 0 /\ is_ascii(b) THEN i ELSE i + 1, 0)
              IN IF cp /= 0
                 THEN [text |-> <<cp>> \o rest.text, had_errors |-> rest.had_errors]
                 ELSE [text |-> <<REPLACEMENT_CHARACTER>> \o rest.text, had_errors |-> TRUE]
         ELSE IF is_ascii(b) \/ b = 128
         THEN LET rest == sjis_decode(s, i + 1, 0)
              IN [text |-> <<b>> \o rest.text, had_errors |-> rest.had_errors]
         ELSE IF b >= 161 /\ b <= 223
         THEN LET rest == sjis_decode(s, i + 1, 0)
              IN [text |-> <<65377 - 161 + b>> \o rest.text, had_errors |-> rest.had_errors]
         ELSE IF (b >= 129 /\ b <= 159) \/ (b >= 224 /\ b <= 252)
         THEN sjis_decode(s, i + 1, b)
         ELSE LET rest == sjis_decode(s, i + 1, 0)
              IN [text |-> <<REPLACEMENT_CHARACTER>> \o rest.text, had_errors |-> TRUE]

\* encoding_rs index windows-1258 (every byte is mapped)
windows_1258(b) ==
    CASE b < 128 -> b
      [] b = 128 -> 8364 [] b = 130 -> 8218 [] b = 131 -> 402  [] b = 132 -> 8222
      [] b = 133 -> 8230 [] b = 134 -> 8224 [] b = 135 -> 8225 [] b = 136 -> 710
      [] b = 137 -> 8240 [] b = 139 -> 8249 [] b = 140 -> 338  [] b = 145 -> 8216
      [] b = 146 -> 8217 [] b = 147 -> 8220 [] b = 148 -> 8221 [] b = 149 -> 8226
      [] b = 150 -> 8211 [] b = 151 -> 8212 [] b = 152 -> 732  [] b = 153 -> 8482
      [] b = 155 -> 8250 [] b = 156 -> 339  [] b = 159 -> 376
      [] b = 195 -> 258  [] b = 204 -> 768  [] b = 208 -> 272  [] b = 210 -> 777
      [] b = 213 -> 416  [] b = 221 -> 431  [] b = 222 -> 771  [] b = 227 -> 259
      [] b = 236 -> 769  [] b = 240 -> 273  [] b = 242 -> 803  [] b = 245 -> 417
      [] b = 253 -> 432  [] b = 254 -> 8363
      [] OTHER -> b

\* encoding_rs WINDOWS_1258 decoder
w1258_decode(s) ==
    [text |-> [i \in 1..Len(s) |-> windows_1258(s[i])], had_errors |-> FALSE]

\* The decoders the model instantiates: ASCIIDecoder, UTF8NFCDecoder, and
\* LegacyEncodingDecoder for encoding_rs::SHIFT_JIS and encoding_rs::WINDOWS_1258
Decoders == {"ASCII", "SJIS", "UTF8", "W1258"}

\* encoding_rs Encoding::decode for a LegacyEncodingDecoder (the inputs start with
\* no byte order mark, which decode would sniff)
legacy_decode(d, s) == IF d = "SJIS" THEN sjis_decode(s, 1, 0) ELSE w1258_decode(s)

\* to_string_lossy that makes a char of every byte
ascii_to_string_lossy_latin1(s) == s

\* ASCIIDecoder::to_string_lossy
ascii_to_string_lossy(s) ==
    [i \in 1..Len(s) |-> IF is_ascii(s[i]) THEN s[i] ELSE REPLACEMENT_CHARACTER]

\* ASCIIDecoder::to_string_lossy of the command line crate: '?' for a byte
\* that is not ASCII
ascii_to_string_lossy_cli(s) ==
    [i \in 1..Len(s) |-> IF is_ascii(s[i]) THEN s[i] ELSE 63]

\* IDecoder::to_string_lossless of each implementation
to_string_lossless(d, s) ==
    CASE d = "UTF8"  -> IF utf8_valid_from(s, 1)
                        THEN Some(compose_from_hfs_nfd(from_utf8_lossy(s))) ELSE None
      [] d = "ASCII" -> IF \E i \in 1..Len(s) : ~is_ascii(s[i]) THEN None ELSE Some(s)
      [] OTHER       -> IF legacy_decode(d, s).had_errors THEN None
                        ELSE Some(legacy_decode(d, s).text)

\* IDecoder::to_string_lossy of each implementation
to_string_lossy(d, s) ==
    CASE d = "UTF8"  -> compose_from_hfs_nfd(from_utf8_lossy(s))
      [] d = "ASCII" -> ascii_to_string_lossy(s)
      [] OTHER       -> legacy_decode(d, s).text

\* IDecoder::can_decode of each implementation
can_decode(d, s) ==
    CASE d = "UTF8"  -> utf8_valid_from(s, 1)
      [] d = "ASCII" -> \A i \in 1..Len(s) : is_ascii(s[i])
      [] OTHER       -> ~legacy_decode(d, s).had_errors

\* decide_decoder that returns the last candidate that decodes every subject
RECURSIVE decide_decoder_last(_, _)
decide_decoder_last(decoders, strings) ==
    IF decoders = <<>> THEN -1
    ELSE IF \A k \in 1..Len(strings) : can_decode(decoders[Len(decoders)], strings[k])
    THEN Len(decoders) - 1
    ELSE decide_decoder_last(SubSeq(decoders, 1, Len(decoders) - 1), strings)

\* the loop of decide_decoder from index i (0-based): Some(i) as i, None as -1
RECURSIVE decide_from(_, _, _)
decide_from(decoders, strings, i) ==
    IF i >= Len(decoders) THEN -1
    ELSE IF \A k \in 1..Len(strings) : can_decode(decoders[i + 1], strings[k])
    THEN i
    ELSE decide_from(decoders, strings, i + 1)

\* filename_decoder::decide_decoder
decide_decoder(decoders, strings) == decide_from(decoders, strings, 0)

-----------------------------------------------------------------------------
(* Archive model: crates/zifu_core/src/lib.rs *)

\* diagnose_file_name_encoding without the filters on the UTF-8 flag
diagnose_file_name_encoding_unfiltered(cds) ==
    [ has_implicit_non_ascii_names |->
          \E i \in 1..Len(cds) : ~can_decode("ASCII", cds[i].file_name_raw),
      has_non_nfc_explicit_utf8_names |->
          \E i \in 1..Len(cds) :
              from_utf8_lossy(cds[i].file_name_raw)
                  /= compose_from_hfs_nfd(from_utf8_lossy(cds[i].file_name_raw)) ]

\* InputZIPArchive::diagnose_file_name_encoding
diagnose_file_name_encoding(cds) ==
    [ has_implicit_non_ascii_names |->
          \E i \in 1..Len(cds) :
              /\ ~is_encoded_in_utf8(cds[i])
              /\ ~can_decode("ASCII", cds[i].file_name_raw),
      has_non_nfc_explicit_utf8_names |->
          \E i \in 1..Len(cds) :
              /\ is_encoded_in_utf8(cds[i])
              /\ from_utf8_lossy(cds[i].file_name_raw)
                     /= compose_from_hfs_nfd(from_utf8_lossy(cds[i].file_name_raw)) ]

\* FileNamesDiagnosis::is_universal_archive
is_universal_archive(diag) ==
    ~diag.has_implicit_non_ascii_names /\ ~diag.has_non_nfc_explicit_utf8_names

\* the subjects of get_filename_decoder_index, names only
RECURSIVE subjects_names_only(_)
subjects_names_only(cds) ==
    IF cds = <<>> THEN <<>>
    ELSE <<Head(cds).file_name_raw>> \o subjects_names_only(Tail(cds))

\* the subjects of get_filename_decoder_index:
\* cd_entries.iter().flat_map(|cd| vec![&cd.file_name_raw, &cd.file_comment])
RECURSIVE subjects(_)
subjects(cds) ==
    IF cds = <<>> THEN <<>>
    ELSE <<Head(cds).file_name_raw, Head(cds).file_comment>> \o subjects(Tail(cds))

\* InputZIPArchive::get_filename_decoder_index: Some(i) as i, None as -1
get_filename_decoder_index(cds, decoders_list) ==
    decide_decoder(decoders_list, subjects(cds))

\* InputZIPArchive::get_file_names_list
get_file_names_list(cds, legacy_decoder) ==
    [i \in 1..Len(cds) |->
        IF is_encoded_in_utf8(cds[i])
        THEN [ encoding_type |->
                   IF from_utf8_lossy(cds[i].file_name_raw)
                          = compose_from_hfs_nfd(from_utf8_lossy(cds[i].file_name_raw))
                   THEN "ExplicitRegularUTF8" ELSE "ExplicitIrregularUTF8",
               name |-> compose_from_hfs_nfd(from_utf8_lossy(cds[i].file_name_raw)) ]
        ELSE IF to_string_lossless("ASCII", cds[i].file_name_raw).some
        THEN [ encoding_type |-> "ImplicitASCII",
               name |-> to_string_lossless("ASCII", cds[i].file_name_raw).text ]
        ELSE [ encoding_type |-> "ImplicitNonASCII",
               name |-> to_string_lossy(legacy_decoder, cds[i].file_name_raw) ]]

\* filename_decoder::decide_decoeder of the command line crate, the loop from
\* index i (0-based): Some(i) as i, None as -1
RECURSIVE decide_decoeder_from(_, _, _)
decide_decoeder_from(decoders, strings, i) ==
    IF i >= Len(decoders) THEN -1
    ELSE IF \A k \in 1..Len(strings) : to_string_lossless(decoders[i + 1], strings[k]).some
    THEN i
    ELSE decide_decoeder_from(decoders, strings, i + 1)

decide_decoeder(decoders, strings) == decide_decoeder_from(decoders, strings, 0)

\* the number of entries flagged UTF-8
RECURSIVE utf8_entries_count(_)
utf8_entries_count(cds) ==
    IF cds = <<>> THEN 0
    ELSE (IF is_encoded_in_utf8(Head(cds)) THEN 1 ELSE 0) + utf8_entries_count(Tail(cds))

\* a ZipFileEncodingType: the variant and its counts, -1 for a count it has not
Statistics(kind, n_utf8, n_ascii, n_legacy) ==
    [kind |-> kind, n_utf8 |-> n_utf8, n_ascii |-> n_ascii, n_legacy |-> n_legacy]

\* InputZIPArchive::check_file_name_encoding of the command line crate
check_file_name_encoding(cds, e) ==
    IF utf8_entries_count(cds) = e.n_cd_entries
    THEN Statistics("AllExplicitUTF8", -1, -1, -1)
    ELSE IF decide_decoeder(<<"ASCII">>, subjects(cds)) /= -1
    THEN IF utf8_entries_count(cds) > 0
         THEN Statistics("ExplicitUTF8AndASCII",
                         e.n_cd_entries - utf8_entries_count(cds),
                         utf8_entries_count(cds), -1)
         ELSE Statistics("AllASCII", -1, -1, -1)
    ELSE IF utf8_entries_count(cds) > 0
    THEN Statistics("ExplicitUTF8AndLegacy",
                    utf8_entries_count(cds), -1,
                    e.n_cd_entries - utf8_entries_count(cds))
    ELSE Statistics("AllLegacy", -1, -1, -1)

\* the closure of convert_central_directory_file_names that leaves the comment of
\* an implicitly encoded entry as it is
convert_entry_name_only(cd, legacy_decoder) ==
    IF is_encoded_in_utf8(cd) THEN cd
    ELSE cd_set_utf8_encoded_flag(
             cd_set_file_name_from_slice(cd,
                 as_bytes(to_string_lossy(legacy_decoder, cd.file_name_raw))))

\* the closure of convert_central_directory_file_names that returns at once for
\* an entry flagged UTF-8
convert_entry_legacy_only(cd, legacy_decoder) ==
    IF is_encoded_in_utf8(cd) THEN cd
    ELSE cd_set_utf8_encoded_flag(
             cd_set_file_coment_from_slice(
                 cd_set_file_name_from_slice(cd,
                     as_bytes(to_string_lossy(legacy_decoder, cd.file_name_raw))),
                 as_bytes(to_string_lossy(legacy_decoder, cd.file_comment))))

\* the closure of convert_central_directory_file_names that decodes the comment
\* of every entry, flagged UTF-8 or not
convert_entry_comment_always(cd, legacy_decoder) ==
    IF is_encoded_in_utf8(cd)
    THEN cd_set_file_coment_from_slice(
             IF from_utf8_lossy(cd.file_name_raw)
                    /= compose_from_hfs_nfd(from_utf8_lossy(cd.file_name_raw))
             THEN cd_set_file_name_from_slice(cd,
                      as_bytes(compose_from_hfs_nfd(from_utf8_lossy(cd.file_name_raw))))
             ELSE cd,
             as_bytes(to_string_lossy(legacy_decoder, cd.file_comment)))
    ELSE cd_set_utf8_encoded_flag(
             cd_set_file_coment_from_slice(
                 cd_set_file_name_from_slice(cd,
                     as_bytes(to_string_lossy(legacy_decoder, cd.file_name_raw))),
                 as_bytes(to_string_lossy(legacy_decoder, cd.file_comment))))

\* the closure convert_central_directory_file_names applies to each entry
convert_entry(cd, legacy_decoder) ==
    IF is_encoded_in_utf8(cd)
    THEN IF from_utf8_lossy(cd.file_name_raw)
                /= compose_from_hfs_nfd(from_utf8_lossy(cd.file_name_raw))
         THEN cd_set_file_name_from_slice(cd,
                  as_bytes(compose_from_hfs_nfd(from_utf8_lossy(cd.file_name_raw))))
         ELSE cd
    ELSE cd_set_utf8_encoded_flag(
             cd_set_file_coment_from_slice(
                 cd_set_file_name_from_slice(cd,
                     as_bytes(to_string_lossy(legacy_decoder, cd.file_name_raw))),
                 as_bytes(to_string_lossy(legacy_decoder, cd.file_comment))))

\* InputZIPArchive::convert_central_directory_file_names
convert_central_directory_file_names(cds, legacy_decoder) ==
    [i \in 1..Len(cds) |-> convert_entry(cds[i], legacy_decoder)]

\* the local header written with the UTF-8 flag set only when its name is replaced
patch_local_header_on_rename(local_header, cd) ==
    IF local_header.file_name_length /= cd.file_name_length
    THEN LET renamed == lfh_set_file_name_from_slice(local_header, cd.file_name_raw)
         IN IF is_encoded_in_utf8(cd) THEN lfh_set_utf8_encoded_flag(renamed) ELSE renamed
    ELSE local_header

\* the local header as output_archive_with_central_directory_file_names writes it:
\* the name of the central directory when the lengths differ, the UTF-8 flag
patch_local_header(local_header, cd) ==
    LET renamed == IF local_header.file_name_length /= cd.file_name_length
                   THEN lfh_set_file_name_from_slice(local_header, cd.file_name_raw)
                   ELSE local_header
    IN IF is_encoded_in_utf8(cd) THEN lfh_set_utf8_encoded_flag(renamed) ELSE renamed

\* output_archive_with_central_directory_file_names, the loop over the local
\* headers from entry i, written bytes written so far: the entries with their new
\* local_header_position, the bytes written, and the error that stopped the loop
RECURSIVE write_local_headers(_, _, _, _, _)
write_local_headers(s, cds, i, written, out) ==
    IF i > Len(cds)
    THEN [kind |-> "Ok", cds |-> cds, pos |-> written, out |-> out, cursor |-> -1]
    ELSE Let(from_central_directory(s, cds[i]), LAMBDA r :
         IF r.kind /= "Ok"
         THEN [kind |-> r.kind, cds |-> cds, pos |-> written, out |-> out, cursor |-> r.cursor]
         ELSE Let(patch_local_header(r.lh, cds[i]), LAMBDA lh :
              Let(write_local_headers(s,
                      [cds EXCEPT ![i].local_header_position = as_u32(written)],
                      i + 1, written + lfh_write_count(lh), out \o lfh_write(lh)),
                  LAMBDA nxt :
                      IF nxt.cursor = -1 THEN [nxt EXCEPT !.cursor = r.cursor] ELSE nxt)))

RECURSIVE write_central_directory(_)
write_central_directory(cds) ==
    IF cds = <<>> THEN <<>> ELSE cd_write(Head(cds)) \o write_central_directory(Tail(cds))

RECURSIVE cd_new_size(_)
cd_new_size(cds) ==
    IF cds = <<>> THEN 0 ELSE cd_write_count(Head(cds)) + cd_new_size(Tail(cds))

\* InputZIPArchive::output_archive_with_central_directory_file_names on the source
\* s positioned at cur: the error or "Ok", the entries and the EOCD as the call
\* leaves them, the bytes written to dest_handler, the position of file_handler
output_archive_with_central_directory_file_names(s, cds, e, cur) ==
    Let(write_local_headers(s, cds, 1, 0, <<>>), LAMBDA w :
    IF w.kind /= "Ok"
    THEN [kind |-> w.kind, cds |-> w.cds, eocd |-> e, out |-> w.out, cursor |-> w.cursor]
    ELSE Let([e EXCEPT !.cd_starting_position = as_u32(w.pos),
                       !.cd_size = as_u32(cd_new_size(w.cds))],
             LAMBDA e2 :
                 [kind |-> "Ok", cds |-> w.cds, eocd |-> e2,
                  out |-> w.out \o write_central_directory(w.cds) \o eocd_write(e2),
                  cursor |-> IF w.cursor = -1 THEN cur ELSE w.cursor]))

-----------------------------------------------------------------------------
(* Input files.  An input is described by its entries and its layout, and the    *)
(* file is the byte sequence Build makes of the description in the ZIP container *)
(* format; the program only ever reads the bytes.                                 *)

\* The description of one entry: the fields of its central directory record, and
\* what its local header holds where the two may disagree; name_over, extra_over,
\* comment_over: by how much the length its central directory record declares for
\* the field exceeds the bytes of the field
Entry(name, comment, flags, payload) ==
    [ name |-> name, comment |-> comment, extra |-> <<>>, flags |-> flags, disk |-> 0,
      cd_csize |-> Len(payload), payload |-> payload, dd |-> <<>>,
      lfh_name |-> name, lfh_flags |-> flags, lfh_csize |-> Len(payload),
      lfh_extra |-> <<>>, cd_magic |-> CD_MAGIC, lfh_magic |-> LOCAL_FILE_MAGIC,
      name_over |-> 0, extra_over |-> 0, comment_over |-> 0 ]

\* names and comments
NAME_ASCII == <<65>>                 \* "A"

NAME_SJIS == <<131, 101>>            \* U+30C6 in Shift_JIS; not UTF-8

NAME_NFC == <<195, 169>>             \* U+00E9 in UTF-8; two halfwidth kana in Shift_JIS

NAME_NFD == <<101, 204, 129>>        \* U+0065 U+0301 in UTF-8; not Shift_JIS

NAME_1258 == <<101, 236>>            \* U+0065 U+0301 in windows-1258; not UTF-8, not Shift_JIS

NAME_BAD == <<255>>                  \* decodable by windows-1258 only

PAYLOAD13 == <<1, 2, 3, 4, 5, 6, 7, 8, 9, 10, 11, 12, 13>>

\* an entry written by a streaming writer: bit 3 set, the sizes of the local header
\* zero, the sizes in the data descriptor after the payload and in the central directory
StreamedEntry ==
    [Entry(NAME_ASCII, <<>>, DATA_DESCRIPTOR_EXISTS_FLAG_BIT, PAYLOAD13)
        EXCEPT !.lfh_csize = 0,
               !.dd = LE32(as_u32(305419896)) \o LE32(as_u32(13)) \o LE32(as_u32(9))]

\* the entry kinds archives of every length up to MaxEntries are made of
BaseKinds ==
    { Entry(NAME_ASCII, <<>>, 0, <<7>>),
      Entry(NAME_SJIS, NAME_SJIS, 0, <<>>),
      Entry(NAME_NFC, <<>>, 0, <<>>),
      Entry(NAME_NFD, <<99>>, UTF8_FLAG_BIT, <<9>>),
      StreamedEntry }

\* The description of a file: the entries in central directory order; bytes before
\* the first local header, between the central directory and the EOCD, and after
\* the EOCD comment; the EOCD comment; the counts and the disk index the EOCD
\* declares (n_decl = -1: the number of entries); cut bytes removed from the end
\* of the file; rev: the local headers lie in the file in reverse order;
\* n_in_disk: the count of entries on this disk the EOCD declares (-1: n_decl);
\* cd_start_disk: the disk it declares the central directory to start on;
\* cd_size_max: it declares u32::MAX as the size of the central directory;
\* cd_start_decl: where it declares the central directory to start (-1: where it does)
Plain(entries) ==
    [ entries |-> entries, prefix |-> <<>>, gap |-> <<>>, comment |-> <<>>,
      trail |-> <<>>, n_decl |-> -1, eocd_disk |-> 0, cut |-> 0, rev |-> FALSE,
      n_in_disk |-> -1, cd_start_disk |-> 0, cd_size_max |-> FALSE, cd_start_decl |-> -1 ]

LfhBytes(e) ==
    e.lfh_magic \o LE16(10) \o LE16(e.lfh_flags) \o LE16(8) \o LE16(11) \o LE16(12)
    \o LE32(as_u32(IF HasBit(e.lfh_flags, DATA_DESCRIPTOR_EXISTS_FLAG_BIT) THEN 0 ELSE 305419896))
    \o LE32(as_u32(e.lfh_csize))
    \o LE32(as_u32(IF HasBit(e.lfh_flags, DATA_DESCRIPTOR_EXISTS_FLAG_BIT) THEN 0 ELSE 9))
    \o LE16(Len(e.lfh_name)) \o LE16(Len(e.lfh_extra))
    \o e.lfh_name \o e.lfh_extra \o e.payload \o e.dd

CdBytes(e, local_header_position) ==
    e.cd_magic \o LE16(20) \o LE16(10) \o LE16(e.flags) \o LE16(8) \o LE16(11) \o LE16(12)
    \o LE32(as_u32(305419896)) \o LE32(as_u32(e.cd_csize)) \o LE32(as_u32(9))
    \o LE16(Len(e.name) + e.name_over) \o LE16(Len(e.extra) + e.extra_over)
    \o LE16(Len(e.comment) + e.comment_over)
    \o LE16(e.disk) \o LE16(1) \o LE32(as_u32(32)) \o LE32(as_u32(local_header_position))
    \o e.name \o e.extra \o e.comment

\* the local headers of entries lo..hi in file order
RECURSIVE LfhRun(_, _, _, _)
LfhRun(es, lo, hi, rev) ==
    IF lo > hi THEN <<>>
    ELSE IF rev THEN LfhBytes(es[hi]) \o LfhRun(es, lo, hi - 1, rev)
    ELSE LfhBytes(es[lo]) \o LfhRun(es, lo + 1, hi, rev)

\* where the local header of entry i starts in the file
LfhOffset(a, i) ==
    Len(a.prefix) + (IF a.rev THEN Len(LfhRun(a.entries, i + 1, Len(a.entries), TRUE))
                     ELSE Len(LfhRun(a.entries, 1, i - 1, FALSE)))

RECURSIVE CdRun(_, _)
CdRun(a, i) ==
    IF i > Len(a.entries) THEN <<>>
    ELSE CdBytes(a.entries[i], LfhOffset(a, i)) \o CdRun(a, i + 1)

\* where the central directory of the file starts
CdStart(a) == Len(a.prefix) + Len(LfhRun(a.entries, 1, Len(a.entries), a.rev))

EocdBytes(a) ==
    LET n == IF a.n_decl = -1 THEN Len(a.entries) ELSE a.n_decl
    IN EOCD_MAGIC \o LE16(a.eocd_disk) \o LE16(a.cd_start_disk)
       \o LE16(IF a.n_in_disk = -1 THEN n ELSE a.n_in_disk) \o LE16(n)
       \o LE32(IF a.cd_size_max THEN [lo |-> U16_MAX, hi |-> U16_MAX]
               ELSE as_u32(Len(CdRun(a, 1))))
       \o LE32(as_u32(IF a.cd_start_decl = -1 THEN CdStart(a) ELSE a.cd_start_decl))
       \o LE16(Len(a.comment)) \o a.comment

Build(a) ==
    LET whole == a.prefix \o LfhRun(a.entries, 1, Len(a.entries), a.rev) \o CdRun(a, 1)
                 \o a.gap \o EocdBytes(a) \o a.trail
    IN SubSeq(whole, 1, Len(whole) - a.cut)

\* the archives of up to MaxEntries entries of the base kinds, laid out back to back
PlainArchives ==
    { Plain(es) : es \in UNION { [1..n -> BaseKinds] : n \in 0..MaxEntries } }


EA == Entry(NAME_ASCII, <<>>, 0, <<7>>)

ES == Entry(NAME_SJIS, NAME_SJIS, 0, <<>>)

\* an entry with ZipCrypto-encrypted payload, named in Shift_JIS
EncryptedEntry ==
    [Entry(NAME_SJIS, <<>>, DATA_ENCRYPTED_FLAG_BIT, <<21, 22>>) EXCEPT !.lfh_csize = 2]

\* a complete EOCD record of an empty archive, as the comment of another EOCD
EmbeddedEocd == EOCD_MAGIC \o LE16(0) \o LE16(0) \o LE16(0) \o LE16(0)
                \o LE32(as_u32(0)) \o LE32(as_u32(0)) \o LE16(0)

\* archives with one irregularity each
SpecialArchives ==
    { \* encrypted entries, entries on another disk
      Plain(<<EncryptedEntry>>),
      Plain(<<EA, EncryptedEntry>>),
      Plain(<<EncryptedEntry, EA>>),
      Plain(<<[EA EXCEPT !.disk = 1]>>),
      Plain(<<ES, [EA EXCEPT !.disk = 1]>>),
      Plain(<<[EncryptedEntry EXCEPT !.name = <<131>>, !.comment = <<99, 99>>]>>),
      \* local header and central directory disagree
      Plain(<<[EA EXCEPT !.lfh_csize = 0]>>),
      Plain(<<[EA EXCEPT !.lfh_name = <<66>>], ES>>),
      Plain(<<[ES EXCEPT !.lfh_name = <<65>>], EA>>),
      Plain(<<[Entry(NAME_NFC, <<>>, UTF8_FLAG_BIT, <<>>) EXCEPT !.lfh_flags = 0]>>),
      Plain(<<[EA EXCEPT !.lfh_extra = <<1, 0, 0, 0>>, !.extra = <<2, 0, 0, 0>>]>>),
      \* names in UTF-8 already composed, names in windows-1258
      Plain(<<Entry(NAME_NFC, NAME_NFC, UTF8_FLAG_BIT, <<>>)>>),
      Plain(<<ES, Entry(NAME_NFC, NAME_NFC, UTF8_FLAG_BIT, <<>>)>>),
      Plain(<<Entry(NAME_1258, <<>>, 0, <<>>)>>),
      Plain(<<EA, Entry(NAME_1258, <<>>, 0, <<>>)>>),
      \* names in ASCII under the UTF-8 flag
      Plain(<<EA, Entry(NAME_ASCII, <<>>, UTF8_FLAG_BIT, <<>>),
              Entry(<<66>>, <<>>, UTF8_FLAG_BIT, <<>>)>>),
      \* names no candidate of a usual list decodes
      Plain(<<Entry(NAME_BAD, <<>>, 0, <<>>)>>),
      Plain(<<Entry(NAME_ASCII, NAME_BAD, 0, <<>>), ES>>),
      \* damaged records
      Plain(<<[EA EXCEPT !.cd_magic = <<80, 75, 1, 3>>]>>),
      Plain(<<[EA EXCEPT !.lfh_magic = <<80, 75, 3, 5>>]>>),
      Plain(<<EA, [ES EXCEPT !.lfh_magic = <<80, 75, 3, 5>>]>>),
      Plain(<<EA, [ES EXCEPT !.lfh_csize = 200]>>),
      \* layout
      [Plain(<<EA>>) EXCEPT !.prefix = <<0>>],
      [Plain(<<EA>>) EXCEPT !.gap = <<80>>],
      [Plain(<<EA, ES>>) EXCEPT !.rev = TRUE],
      [Plain(<<EA>>) EXCEPT !.n_decl = 0],
      [Plain(<<EA>>) EXCEPT !.n_decl = 2],
      [Plain(<<EA>>) EXCEPT !.eocd_disk = 1],
      \* EOCD fields of split archives and of ZIP64
      [Plain(<<EA>>) EXCEPT !.n_in_disk = 0],
      [Plain(<<ES>>) EXCEPT !.cd_start_disk = U16_MAX],
      [Plain(<<EA>>) EXCEPT !.cd_start_disk = 1],
      [Plain(<<EA>>) EXCEPT !.cd_size_max = TRUE],
      [Plain(<<ES, EA>>) EXCEPT !.eocd_disk = U16_MAX],
      \* central directory records that declare more bytes than the file holds,
      \* or run into the EOCD; a central directory declared at the end of the file
      Plain(<<[EA EXCEPT !.name_over = 200]>>),
      Plain(<<[EA EXCEPT !.extra_over = 200]>>),
      Plain(<<EA, [ES EXCEPT !.comment_over = 200]>>),
      Plain(<<[EA EXCEPT !.comment_over = 4]>>),
      Plain(<<EA, [ES EXCEPT !.comment_over = 22]>>),
      [Plain(<<EA>>) EXCEPT !.cd_start_decl = 99],
      [Plain(<<EA>>) EXCEPT !.cd_start_decl = 300],
      [Plain(<<>>) EXCEPT !.comment = CD_MAGIC, !.cd_start_decl = 22, !.n_decl = 1],
      \* EOCD comments and magics that are no EOCD
      [Plain(<<EA>>) EXCEPT !.comment = <<99>>],
      [Plain(<<ES>>) EXCEPT !.comment = EOCD_MAGIC],
      [Plain(<<EA>>) EXCEPT !.comment = EmbeddedEocd],
      [Plain(<<EA>>) EXCEPT !.trail = <<0>>],
      [Plain(<<>>) EXCEPT !.trail = EOCD_MAGIC],
      Plain(<<Entry(NAME_ASCII, <<>>, 0, EOCD_MAGIC)>>),
      Plain(<<Entry(NAME_ASCII, <<>>, 0, <<80, 80, 75, 5, 6>>), ES>>),
      [Plain(<<Entry(NAME_ASCII, <<>>, 0, EOCD_MAGIC)>>) EXCEPT !.comment = <<99, 100>>],
      \* files cut short
      [Plain(<<>>) EXCEPT !.cut = 22],
      [Plain(<<>>) EXCEPT !.cut = 18],
      [Plain(<<>>) EXCEPT !.cut = 5],
      [Plain(<<>>) EXCEPT !.cut = 1],
      [Plain(<<EA>>) EXCEPT !.cut = 1] }

Archives == PlainArchives \cup SpecialArchives

\* the shortest name of bytes that each become three bytes of UTF-8 whose
\* converted length no longer fits the 16-bit length field: 3 * 21846 = 65538
LongLen == 21846

\* LongLen bytes 0xB1: a halfwidth katakana in Shift_JIS, U+00B1 in windows-1258,
\* not ASCII
LongName == [i \in 1..LongLen |-> 177]

EL == Entry(LongName, <<>>, 0, <<7>>)

\* archives with a long name, and two short ones, laid out back to back
LongArchives ==
    { Plain(<<EL, EA>>), Plain(<<EA>>), Plain(<<EA, ES>>) }

\* the slices the setters of ZipCDEntry are called with
SliceInputs == { <<>>, <<66>> }

\* the decoders that decode by table, one byte at a time
TableDecoders == {"ASCII", "W1258"}

\* the longest name or comment the decoders that walk the bytes are run on
MaxWalk == 64

\* the number of operations called on an archive with a long name
MaxCalls == 2

\* the candidate lists get_filename_decoder_index is called with
CandidateLists ==
    { <<"ASCII", "SJIS", "UTF8">>, <<"SJIS", "ASCII", "UTF8">>,
      <<"UTF8", "W1258">>, <<"SJIS">>, <<>> }

-----------------------------------------------------------------------------
(* The archive object: construction, then any sequence of its operations *)

NoDiagnosis ==
    [has_implicit_non_ascii_names |-> FALSE, has_non_nfc_explicit_utf8_names |-> FALSE]

NoStatistics == Statistics("none", -1, -1, -1)

\* last: the operation, its decoder or candidate list, and what it returned
Called(op, dec, cands, idx, diag) ==
    [op |-> op, dec |-> dec, cands |-> cands, idx |-> idx, diag |-> diag,
     stat |-> NoStatistics, text |-> None,
     calls |-> IF last.calls < 0 THEN last.calls ELSE last.calls + 1]

\* last when new returns: calls is the number of operations called since, for
\* the specification that bounds it, and -1 where they are not counted
Returned(op, calls) ==
    [op |-> op, dec |-> "none", cands |-> <<>>, idx |-> -1, diag |-> NoDiagnosis,
     stat |-> NoStatistics, text |-> None, calls |-> calls]

Init ==
    /\ arch \in Archives
    /\ input = Build(arch)
    /\ pc = "start"
    /\ cursor = 0
    /\ pos = 0
    /\ eocd_magic_point = 0
    /\ eocd = ZipEOCD_empty
    /\ cd_entries = <<>>
    /\ error = "none"
    /\ output = <<>>
    /\ last = Returned("none", -1)

\* InputZIPArchive::new, ZipEOCD::from_reader up to the search loop
from_reader ==
    /\ pc = "start"
    /\ pc' = "scan"
    /\ cursor' = zip_eocd_left_bound_pos(Len(input))
    /\ pos' = zip_eocd_left_bound_pos(Len(input))
    /\ eocd_magic_point' = 0
    /\ eocd' = ZipEOCD_empty
    /\ error' = "none"
    /\ last' = Called("new", "none", <<>>, -1, NoDiagnosis)
    /\ UNCHANGED <<arch, input, cd_entries, output>>

\* ZipEOCD::from_reader, one turn of the search loop; when it returns the record,
\* the seek of all_from_eocd to the central directory
from_reader_loop ==
    /\ pc = "scan"
    /\ LET r == scan_step(input, [kind |-> "continue", cur |-> cursor, pos |-> pos,
                                  eocd_magic_point |-> eocd_magic_point, eocd |-> eocd])
       IN /\ eocd' = r.eocd
          /\ pos' = r.pos
          /\ eocd_magic_point' = r.eocd_magic_point
          /\ cursor' = IF r.kind = "Ok" THEN as_u64(r.eocd.cd_starting_position) ELSE r.cur
          /\ pc' = CASE r.kind = "continue" -> "scan"
                     [] r.kind = "Ok" -> "cd"
                     [] OTHER -> "failed"
          /\ error' = IF r.kind \in {"continue", "Ok"} THEN "none" ELSE r.kind
    /\ UNCHANGED <<arch, input, cd_entries, output, last>>

\* ZipCDEntry::all_from_eocd, one iteration of the loop.  After a failure
\* cd_entries keeps the entries parsed before it (the program drops them).
all_from_eocd_entry ==
    /\ pc = "cd"
    /\ Len(cd_entries) < eocd.n_cd_entries
    /\ LET r == read_and_generate_from_signature(input, cursor) IN
       IF r.kind = "Ok"
       THEN /\ cd_entries' = Append(cd_entries, r.cd)
            /\ cursor' = r.cursor
            /\ UNCHANGED <<pc, error>>
       ELSE /\ cursor' = r.cursor
            /\ pc' = "failed"
            /\ error' = r.kind
            /\ UNCHANGED cd_entries
    /\ UNCHANGED <<arch, input, pos, eocd_magic_point, eocd, output, last>>

\* ZipCDEntry::all_from_eocd after the loop.  When end_pos is past the EOCD the
\* subtraction in the error message overflows: a panic in a build with overflow
\* checks, the error otherwise.
all_from_eocd_end ==
    /\ pc = "cd"
    /\ Len(cd_entries) = eocd.n_cd_entries
    /\ IF cursor = eocd.starting_position_with_signature
       THEN pc' = "loaded" /\ error' = "none"
       ELSE /\ pc' = "failed"
            /\ \/ error' = "UnsupportedZipArchive"
               \/ cursor > eocd.starting_position_with_signature /\ error' = "panic"
    /\ UNCHANGED <<arch, input, cursor, pos, eocd_magic_point, eocd, cd_entries, output, last>>

\* InputZIPArchive::check_unsupported_zip_type
check_unsupported_zip_type ==
    /\ pc = "loaded"
    /\ error' = eocd_check_unsupported_zip_type(eocd)
    /\ output' = <<>>
    /\ last' = Called("check_unsupported_zip_type", "none", <<>>, -1, NoDiagnosis)
    /\ UNCHANGED <<arch, input, pc, cursor, pos, eocd_magic_point, eocd, cd_entries>>

\* InputZIPArchive::diagnose_file_name_encoding
diagnose ==
    /\ pc = "loaded"
    /\ error' = "none"
    /\ output' = <<>>
    /\ last' = Called("diagnose", "none", <<>>, -1, diagnose_file_name_encoding(cd_entries))
    /\ UNCHANGED <<arch, input, pc, cursor, pos, eocd_magic_point, eocd, cd_entries>>

\* InputZIPArchive::check_file_name_encoding (the archive of the command line crate)
check_file_name_encoding_call ==
    /\ pc = "loaded"
    /\ error' = "none"
    /\ output' = <<>>
    /\ last' = [Called("check_file_name_encoding", "none", <<>>, -1, NoDiagnosis)
                   EXCEPT !.stat = check_file_name_encoding(cd_entries, eocd)]
    /\ UNCHANGED <<arch, input, pc, cursor, pos, eocd_magic_point, eocd, cd_entries>>

\* InputZIPArchive::get_filename_decoder_index
decide(decoders_list) ==
    /\ pc = "loaded"
    /\ error' = "none"
    /\ output' = <<>>
    /\ last' = Called("decide", "none", decoders_list,
                      get_filename_decoder_index(cd_entries, decoders_list), NoDiagnosis)
    /\ UNCHANGED <<arch, input, pc, cursor, pos, eocd_magic_point, eocd, cd_entries>>

\* InputZIPArchive::convert_central_directory_file_names
convert(legacy_decoder) ==
    /\ pc = "loaded"
    /\ cd_entries' = convert_central_directory_file_names(cd_entries, legacy_decoder)
    /\ error' = "none"
    /\ output' = <<>>
    /\ last' = Called("convert", legacy_decoder, <<>>, -1, NoDiagnosis)
    /\ UNCHANGED <<arch, input, pc, cursor, pos, eocd_magic_point, eocd>>

\* InputZIPArchive::output_archive_with_central_directory_file_names; output is
\* what reached dest_handler when the call returned
serialize ==
    /\ pc = "loaded"
    /\ \E r \in { output_archive_with_central_directory_file_names(
                       input, cd_entries, eocd, cursor) } :
       /\ cd_entries' = r.cds
       /\ eocd' = r.eocd
       /\ output' = r.out
       /\ cursor' = r.cursor
       /\ error' = IF r.kind = "Ok" THEN "none" ELSE r.kind
    /\ last' = Called("serialize", "none", <<>>, -1, NoDiagnosis)
    /\ UNCHANGED <<arch, input, pc, pos, eocd_magic_point>>

Next ==
    \/ from_reader
    \/ from_reader_loop
    \/ all_from_eocd_entry
    \/ all_from_eocd_end
    \/ check_unsupported_zip_type
    \/ diagnose
    \/ check_file_name_encoding_call
    \/ \E decoders_list \in CandidateLists : decide(decoders_list)
    \/ \E legacy_decoder \in Decoders : convert(legacy_decoder)
    \/ serialize

Spec == Init /\ [][Next]_vars

-----------------------------------------------------------------------------
(* The archive object from the moment new has returned it, for archives whose  *)
(* names are long, with the setters of ZipCDEntry among the operations         *)

\* where the EOCD of the file described by a starts
EocdStart(a) == CdStart(a) + Len(CdRun(a, 1)) + Len(a.gap)

\* ZipCDEntry::all_from_eocd, the loop: the n entries read from position p on
RECURSIVE all_from_eocd(_, _, _)
all_from_eocd(s, p, n) ==
    IF n = 0 THEN <<>>
    ELSE Let(read_and_generate_from_signature(s, p), LAMBDA r :
             <<r.cd>> \o all_from_eocd(s, r.cursor, n - 1))

\* ZipEOCD::from_reader, n turns of the search loop from the state st, the turns
\* taken by halves; a loop that has returned stays as it is
RECURSIVE from_reader_turns(_, _, _)
from_reader_turns(s, st, n) ==
    Let(st, LAMBDA t :
        IF t.kind /= "continue" \/ n = 0 THEN t
        ELSE IF n = 1 THEN scan_step(s, t)
        ELSE from_reader_turns(s, from_reader_turns(s, t, n \div 2), n - (n \div 2)))

\* ZipEOCD::from_reader on the source s: the loop reads a byte each turn and goes
\* back once per magic at most, so it returns within 2 * Len(s) + 1 turns
eocd_from_reader(s) ==
    from_reader_turns(s, [kind |-> "continue", cur |-> zip_eocd_left_bound_pos(Len(s)),
                          pos |-> zip_eocd_left_bound_pos(Len(s)),
                          eocd_magic_point |-> 0, eocd |-> ZipEOCD_empty],
                      (2 * Len(s)) + 1)

\* ZipCDEntry::all_from_eocd, the loop and the test after it: n entries are still
\* to read at position p, cds are read; the error, or "Ok" with the entries.
\* Past the EOCD the subtraction of the error message overflows, and the call
\* panics or returns the error as the build decides.
RECURSIVE all_from_eocd_result(_, _, _, _, _)
all_from_eocd_result(s, e, p, n, cds) ==
    IF n = 0
    THEN [kind |-> IF p = e.starting_position_with_signature THEN "Ok"
                   ELSE IF p < e.starting_position_with_signature
                   THEN "UnsupportedZipArchive"
                   ELSE "UnsupportedZipArchive or panic",
          cds |-> cds]
    ELSE Let(read_and_generate_from_signature(s, p), LAMBDA r :
             IF r.kind /= "Ok" THEN [kind |-> r.kind, cds |-> cds]
             ELSE all_from_eocd_result(s, e, r.cursor, n - 1, Append(cds, r.cd)))

\* InputZIPArchive::new on the source s: the error, or "Ok" with the EOCD and the
\* entries of the archive
InputZIPArchive_new(s) ==
    Let(eocd_from_reader(s), LAMBDA l :
        IF l.kind /= "Ok" THEN [kind |-> l.kind, eocd |-> l.eocd, cd_entries |-> <<>>]
        ELSE Let(all_from_eocd_result(s, l.eocd, as_u64(l.eocd.cd_starting_position),
                                      l.eocd.n_cd_entries, <<>>),
                 LAMBDA c : [kind |-> c.kind, eocd |-> l.eocd, cd_entries |-> c.cds]))

\* InputZIPArchive::new has returned Ok for the file of a description with
\* no irregularity: the only magic of the file is that of its EOCD
LoadedInit ==
    /\ arch \in LongArchives
    /\ input = Build(arch)
    /\ pc = "loaded"
    /\ cursor = EocdStart(arch)
    /\ pos = EocdStart(arch) + 3
    /\ eocd_magic_point = 4
    /\ eocd = from_reader_next_to_signature(ZipEOCD_empty, input, EocdStart(arch) + 4).eocd
    /\ cd_entries = all_from_eocd(input, CdStart(arch), Len(arch.entries))
    /\ error = "none"
    /\ output = <<>>
    /\ last = Returned("new", 0)

\* ZipCDEntry::set_file_name_from_slice on entry i
set_file_name_from_slice(i, name) ==
    /\ pc = "loaded"
    /\ last.calls < MaxCalls
    /\ i \in 1..Len(cd_entries)
    /\ cd_entries' = [cd_entries EXCEPT ![i] = cd_set_file_name_from_slice(@, name)]
    /\ error' = "none"
    /\ output' = <<>>
    /\ last' = Called("set_file_name_from_slice", "none", <<>>, -1, NoDiagnosis)
    /\ UNCHANGED <<arch, input, pc, cursor, pos, eocd_magic_point, eocd>>

\* ZipCDEntry::set_file_coment_from_slice on entry i
set_file_coment_from_slice(i, comment) ==
    /\ pc = "loaded"
    /\ last.calls < MaxCalls
    /\ i \in 1..Len(cd_entries)
    /\ cd_entries' = [cd_entries EXCEPT ![i] = cd_set_file_coment_from_slice(@, comment)]
    /\ error' = "none"
    /\ output' = <<>>
    /\ last' = Called("set_file_coment_from_slice", "none", <<>>, -1, NoDiagnosis)
    /\ UNCHANGED <<arch, input, pc, cursor, pos, eocd_magic_point, eocd>>

\* ZipCDEntry::set_utf8_encoded_flag on entry i
set_utf8_encoded_flag(i) ==
    /\ pc = "loaded"
    /\ last.calls < MaxCalls
    /\ i \in 1..Len(cd_entries)
    /\ cd_entries' = [cd_entries EXCEPT ![i] = cd_set_utf8_encoded_flag(@)]
    /\ error' = "none"
    /\ output' = <<>>
    /\ last' = Called("set_utf8_encoded_flag", "none", <<>>, -1, NoDiagnosis)
    /\ UNCHANGED <<arch, input, pc, cursor, pos, eocd_magic_point, eocd>>

\* convert with a table decoder; the names of the entries flagged UTF-8, which
\* convert walks byte by byte, are of MaxWalk bytes at most
convert_by_table(legacy_decoder) ==
    /\ last.calls < MaxCalls
    /\ \A i \in 1..Len(cd_entries) :
           is_encoded_in_utf8(cd_entries[i]) => Len(cd_entries[i].file_name_raw) <= MaxWalk
    /\ convert(legacy_decoder)

\* serialize, among the MaxCalls operations
serialize_loaded ==
    /\ last.calls < MaxCalls
    /\ serialize

LoadedNext ==
    \/ \E i \in 1..MaxEntries, name \in SliceInputs : set_file_name_from_slice(i, name)
    \/ \E i \in 1..MaxEntries, comment \in SliceInputs : set_file_coment_from_slice(i, comment)
    \/ \E i \in 1..MaxEntries : set_utf8_encoded_flag(i)
    \/ \E legacy_decoder \in TableDecoders : convert_by_table(legacy_decoder)
    \/ serialize_loaded

LoadedSpec == LoadedInit /\ [][LoadedNext]_vars

-----------------------------------------------------------------------------
(* The ASCII decoder on its own: byte strings, and the two methods called on   *)
(* them.  The archive variables stay those of an empty archive.                *)

\* the longest byte string decoded
MaxLen == 3

\* the bytes the strings are made of: both ends of the ASCII range, the first
\* byte past it, the last byte
DecoderBytes == {0, 65, 127, 128, 255}

ByteStrings == UNION { [1..n -> DecoderBytes] : n \in 0..MaxLen }

\* the crates with an ASCIIDecoder: zifu_core and the command line crate
Crates == {"zifu_core", "zifu"}

DecoderInit ==
    /\ arch = Plain(<<>>)
    /\ input \in ByteStrings
    /\ pc = "decoder"
    /\ cursor = 0
    /\ pos = 0
    /\ eocd_magic_point = 0
    /\ eocd = ZipEOCD_empty
    /\ cd_entries = <<>>
    /\ error = "none"
    /\ output = <<>>
    /\ last = Returned("none", -1)

\* ASCIIDecoder::to_string_lossless on the input (the same in both crates)
ascii_to_string_lossless_call ==
    /\ pc = "decoder"
    /\ last' = [Called("to_string_lossless", "ASCII", <<>>, -1, NoDiagnosis)
                   EXCEPT !.text = to_string_lossless("ASCII", input)]
    /\ UNCHANGED <<arch, input, pc, cursor, pos, eocd_magic_point, eocd, cd_entries,
                   error, output>>

\* ASCIIDecoder::to_string_lossy of the crate on the input; cands holds the crate
ascii_to_string_lossy_call(crate) ==
    /\ pc = "decoder"
    /\ last' = [Called("to_string_lossy", "ASCII", <<crate>>, -1, NoDiagnosis)
                   EXCEPT !.text = Some(IF crate = "zifu_core"
                                        THEN ascii_to_string_lossy(input)
                                        ELSE ascii_to_string_lossy_cli(input))]
    /\ UNCHANGED <<arch, input, pc, cursor, pos, eocd_magic_point, eocd, cd_entries,
                   error, output>>

DecoderNext ==
    \/ ascii_to_string_lossless_call
    \/ \E crate \in Crates : ascii_to_string_lossy_call(crate)

DecoderSpec == DecoderInit /\ [][DecoderNext]_vars

-----------------------------------------------------------------------------
(* The EOCD locator, stated on the bytes of the input *)

\* the magic stands at position m
MagicAt(s, m) == m + 4 <= Len(s) /\ Slice(s, m, 4) = EOCD_MAGIC

\* a record at m verifies: the comment it declares ends exactly at the end of the file
Verifies(s, m) ==
    /\ MagicAt(s, m)
    /\ m + 22 <= Len(s)
    /\ m + 22 + U16At(s, m + 20) = Len(s)

\* the positions of the scan window (the whole file, for files this short)
ScanWindow(s) == zip_eocd_left_bound_pos(Len(s)) .. (Len(s) - 1)

VerifyingPositions(s) == { m \in ScanWindow(s) : Verifies(s, m) }

\* the true EOCD: the verifying record the forward scan meets first
TrueEocd(s) == CHOOSE m \in VerifyingPositions(s) : \A k \in VerifyingPositions(s) : m <= k

\* the locator has just finished
LocatorReturns == pc = "scan" /\ pc' /= "scan"

\* C9: when magics that do not verify precede the true EOCD, the locator neither
\* stops nor fails at them and skips no start position: it returns the record
\* whose signature position and fixed fields are those of the true EOCD.
C9_LocatorResumesAfterFalseMagic ==
    [][ (LocatorReturns /\ VerifyingPositions(input) /= {}) =>
          LET m == TrueEocd(input) IN
          /\ pc' = "cd"
          /\ error' = "none"
          /\ eocd'.starting_position_with_signature = m
          /\ eocd'.starting_position_without_signature = m + 4
          /\ eocd'.eocd_disk_index = U16At(input, m + 4)
          /\ eocd'.cd_start_disk_index = U16At(input, m + 6)
          /\ eocd'.n_cd_entries_in_disk = U16At(input, m + 8)
          /\ eocd'.n_cd_entries = U16At(input, m + 10)
          /\ eocd'.cd_size = U32At(input, m + 12)
          /\ eocd'.cd_starting_position = U32At(input, m + 16)
          /\ eocd'.comment_length = U16At(input, m + 20) ]_vars

\* C9 witness: the locator returned a record that a magic which does not verify
\* precedes in the file
C9_Witness ==
    /\ pc = "cd"
    /\ cd_entries = <<>>
    /\ \E m \in ScanWindow(input) :
          /\ MagicAt(input, m)
          /\ ~Verifies(input, m)
          /\ m < eocd.starting_position_with_signature

\* C10: when no magic of the source verifies, the locator fails with
\* InvalidZipArchive, not with an I/O error.
C10_NotFoundIsInvalidZipArchive ==
    [][ (LocatorReturns /\ VerifyingPositions(input) = {}) =>
          (pc' = "failed" /\ error' = "InvalidZipArchive") ]_vars

-----------------------------------------------------------------------------
(* Entries the loader rejects *)

\* the reader stands on a central directory record with all its fixed fields,
\* that is encrypted or lies on another disk
UnsupportedEntryAtCursor ==
    /\ pc = "cd"
    /\ Len(cd_entries) < eocd.n_cd_entries
    /\ Remaining(input, cursor) >= 46
    /\ Slice(input, cursor, 4) = CD_MAGIC
    /\ \/ HasBit(U16At(input, cursor + 8), DATA_ENCRYPTED_FLAG_BIT)
       \/ U16At(input, cursor + 34) /= 0

IsZipCryptoSjisArchive(a) ==
    /\ a = Plain(a.entries)
    /\ a.entries /= <<>>
    /\ \A i \in DOMAIN a.entries :
          /\ HasBit(a.entries[i].flags, DATA_ENCRYPTED_FLAG_BIT)
          /\ a.entries[i].name = NAME_SJIS

\* C8: an archive of ZipCrypto-encrypted entries named in Shift_JIS loads, and
\* check_unsupported_zip_type, convert and serialize then succeed on it.
C8_ZipCryptoArchiveLoadsAndConverts ==
    IsZipCryptoSjisArchive(arch) => (pc /= "failed" /\ error = "none")

-----------------------------------------------------------------------------
(* Decoder selection *)

\* candidate j (0-based) of the list c losslessly decodes every string of S
DecodesAll(c, j, S) == \A k \in 1..Len(S) : to_string_lossless(c[j + 1], S[k]).some

\* C5: decide returns Some(i) exactly when candidate i losslessly decodes every
\* subject and every candidate before it fails on some subject, and None exactly
\* when no candidate decodes all subjects.
C5_DecideFirstDecodingAll ==
    last.op = "decide" =>
        LET c == last.cands
            S == subjects(cd_entries)
        IN /\ last.idx \in -1..(Len(c) - 1)
           /\ \A i \in 0..(Len(c) - 1) :
                  (last.idx = i) <=> /\ DecodesAll(c, i, S)
                                     /\ \A j \in 0..(i - 1) : ~DecodesAll(c, j, S)
           /\ (last.idx = -1) <=> \A j \in 0..(Len(c) - 1) : ~DecodesAll(c, j, S)

\* C5 witness: for [ASCII, SJIS, UTF8] and names valid in Shift_JIS only, decide
\* returned the index of SJIS
C5_Witness ==
    /\ last.op = "decide"
    /\ last.cands = <<"ASCII", "SJIS", "UTF8">>
    /\ last.idx = 1
    /\ \E i \in 1..Len(cd_entries) : cd_entries[i].file_name_raw = NAME_SJIS

\* candidate d losslessly decodes the raw name and the raw comment of entry cd
DecodesEntry(d, cd) ==
    /\ to_string_lossless(d, cd.file_name_raw).some
    /\ to_string_lossless(d, cd.file_comment).some

\* C6: get_filename_decoder_index judges the candidates on the raw name and the
\* raw comment of every entry, flagged UTF-8 or not: it returns None when no
\* single candidate decodes them all, else a candidate that does.
C6_SubjectsAreAllNamesAndComments ==
    last.op = "decide" =>
        /\ (last.idx = -1) <=>
               ~\E j \in 1..Len(last.cands) :
                    \A i \in 1..Len(cd_entries) : DecodesEntry(last.cands[j], cd_entries[i])
        /\ last.idx /= -1 =>
               \A i \in 1..Len(cd_entries) :
                   DecodesEntry(last.cands[last.idx + 1], cd_entries[i])

\* C6 witness: None for two entries, one of them flagged UTF-8, each of which
\* some candidate decodes
C6_Witness ==
    /\ last.op = "decide"
    /\ last.idx = -1
    /\ Len(cd_entries) = 2
    /\ \E i \in 1..2 : is_encoded_in_utf8(cd_entries[i])
    /\ \A i \in 1..2 : \E j \in 1..Len(last.cands) :
           DecodesEntry(last.cands[j], cd_entries[i])

-----------------------------------------------------------------------------
(* convert *)

\* the step is a call of convert
ConvertCalled == pc = "loaded" /\ last'.op = "convert"

\* C2: after convert(d) every entry that had no UTF-8 flag has as name and comment
\* the UTF-8 encoding of what d decodes, lossily, from the old name and the old
\* comment, and has the flag; so every entry has the flag.
C2_ConvertRewritesUnflaggedEntries ==
    [][ ConvertCalled =>
          /\ Len(cd_entries') = Len(cd_entries)
          /\ \A i \in 1..Len(cd_entries) :
                /\ is_encoded_in_utf8(cd_entries'[i])
                /\ ~is_encoded_in_utf8(cd_entries[i]) =>
                      /\ cd_entries'[i].file_name_raw =
                             as_bytes(to_string_lossy(last'.dec, cd_entries[i].file_name_raw))
                      /\ cd_entries'[i].file_comment =
                             as_bytes(to_string_lossy(last'.dec, cd_entries[i].file_comment)) ]_vars

\* C2 witness: convert with the Shift_JIS decoder has rewritten the name and the
\* comment of an entry the input does not flag
C2_Witness ==
    /\ last.op = "convert"
    /\ last.dec = "SJIS"
    /\ \E i \in 1..Len(cd_entries) :
          /\ ~HasBit(arch.entries[i].flags, UTF8_FLAG_BIT)
          /\ arch.entries[i].name = NAME_SJIS
          /\ arch.entries[i].comment = NAME_SJIS
          /\ cd_entries[i].file_name_raw = <<227, 131, 134>>
          /\ cd_entries[i].file_comment = <<227, 131, 134>>
          /\ is_encoded_in_utf8(cd_entries[i])

\* C3: a convert that follows a convert, with any decoders, leaves every entry of
\* the central directory as the first call left it.
C3_ConvertIdempotent ==
    [][ (ConvertCalled /\ last.op = "convert") => cd_entries' = cd_entries ]_vars

-----------------------------------------------------------------------------
(* serialize *)

\* the archive is as new loaded it from a file whose central directory holds
\* the entries of the description and points at their local headers
AsLoaded ==
    /\ pc = "loaded"
    /\ Len(cd_entries) = Len(arch.entries)
    /\ \A i \in 1..Len(cd_entries) :
          /\ cd_entries[i].file_name_raw = arch.entries[i].name
          /\ cd_entries[i].file_comment = arch.entries[i].comment
          /\ cd_entries[i].general_purpose_flags = arch.entries[i].flags
          /\ cd_entries[i].local_header_position = as_u32(LfhOffset(arch, i))

\* the step is a call of serialize on the archive as loaded, and it returns Ok
SerializeAsLoaded == AsLoaded /\ last'.op = "serialize" /\ error' = "none"

\* the output holds, where its central directory places the local header of
\* entry i, a local header followed by its name, its extra field and then the
\* bytes given
PayloadInOutput(i, bytes) ==
    LET q == as_u64(cd_entries[i].local_header_position) IN
    /\ q + 30 <= Len(output)
    /\ Slice(output, q, 4) = LOCAL_FILE_MAGIC
    /\ LET d == q + 30 + U16At(output, q + 26) + U16At(output, q + 28) IN
       /\ d + Len(bytes) <= Len(output)
       /\ Slice(output, d, Len(bytes)) = bytes

\* C1: serialize writes, right after the name and the extra field of each local
\* header, the payload bytes that follow that local header in the input, as many
\* as the compressed_size of the central directory says, whatever the size fields
\* of the local header hold and also when flag bit 3 is set.
C1_PayloadCopiedVerbatim ==
    [][ SerializeAsLoaded =>
          \A i \in 1..Len(cd_entries) :
              /\ Len(arch.entries[i].payload) = as_u64(cd_entries[i].compressed_size)
              /\ PayloadInOutput(i, arch.entries[i].payload)' ]_vars

\* C4: for an archive that loads and in which no local header name differs in
\* length from the name of the central directory, serialize without convert
\* writes the bytes of the input.
C4_RoundTrip ==
    [][ (/\ SerializeAsLoaded
         /\ \A i \in 1..Len(arch.entries) :
                Len(arch.entries[i].lfh_name) = Len(arch.entries[i].name))
        => output' = input ]_vars

-----------------------------------------------------------------------------
(* Length fields *)

\* C11: in every state of a central directory entry, after load and after any
\* calls of the setters and of convert with slices of up to 65535 bytes,
\* file_name_length is the number of bytes of file_name_raw and
\* file_comment_length the number of bytes of file_comment.
C11_LengthFieldsMatchBuffers ==
    \A i \in 1..Len(cd_entries) :
        /\ cd_entries[i].file_name_length = Len(cd_entries[i].file_name_raw)
        /\ cd_entries[i].file_comment_length = Len(cd_entries[i].file_comment)

-----------------------------------------------------------------------------
(* The layout of the output of serialize *)

\* serialize has just returned Ok
SerializedOk == last.op = "serialize" /\ error = "none"

\* the step is a call of serialize that returns Ok
SerializeReturnsOk == pc = "loaded" /\ last'.op = "serialize" /\ error' = "none"

\* where the EOCD record starts in the output out that ends with the record of e
EocdOffset(out, e) == Len(out) - Len(eocd_write(e))

\* where the first central directory record starts in the output: before the
\* bytes of the records of cds, which the EOCD follows
CdOffset(out, cds, e) == EocdOffset(out, e) - Len(write_central_directory(cds))

\* where the central directory record of entry i starts in the output
CdRecordOffset(out, cds, e, i) ==
    CdOffset(out, cds, e) + Len(write_central_directory(SubSeq(cds, 1, i - 1)))

\* C12: in the output of serialize the cd_starting_position of the EOCD is the
\* number of bytes written for all the local headers, which is where the first
\* central directory record starts, and its cd_size is the number of bytes
\* written for all the central directory records; neither loses a bit.
C12_EocdDescribesCentralDirectory ==
    SerializedOk =>
        LET at == EocdOffset(output, eocd)
            start == CdOffset(output, cd_entries, eocd)
        IN /\ start >= 0
           /\ Slice(output, at, 4) = EOCD_MAGIC
           /\ as_u64(U32At(output, at + 16)) = start
           /\ as_u64(U32At(output, at + 12)) = Len(write_central_directory(cd_entries))
           /\ cd_entries /= <<>> => Slice(output, start, 4) = CD_MAGIC

\* the bytes serialize writes for the local header of the entry cd of the source s
WrittenLocalHeader(s, cd) ==
    lfh_write(patch_local_header(from_central_directory(s, cd).lh, cd))

\* the number of bytes serialize writes for the local headers before that of entry i
RECURSIVE LocalHeaderOffset(_, _, _)
LocalHeaderOffset(s, cds, i) ==
    IF i <= 1 THEN 0
    ELSE LocalHeaderOffset(s, cds, i - 1) + Len(WrittenLocalHeader(s, cds[i - 1]))

\* C13: in the output of serialize the local headers and the central directory
\* records lie in the order of the central directory, and the
\* local_header_position of each central directory record is where the magic of
\* the local header of its entry starts: the number of bytes written for the
\* local headers before it.
C13_LocalHeaderPositionsAreOffsets ==
    [][ SerializeReturnsOk =>
          \A i \in 1..Len(cd_entries) :
              LET off == LocalHeaderOffset(input, cd_entries, i)
                  w == WrittenLocalHeader(input, cd_entries[i])
                  c == CdRecordOffset(output', cd_entries', eocd', i)
              IN /\ off + Len(w) <= Len(output')
                 /\ Slice(output', off, Len(w)) = w
                 /\ Slice(output', c, 4) = CD_MAGIC
                 /\ as_u64(U32At(output', c + 42)) = off
                 /\ cd_entries'[i].local_header_position = as_u32(off)
                 /\ cd_entries'[i].file_name_raw = cd_entries[i].file_name_raw ]_vars

\* C14: in the output of serialize the name and the name length of every local
\* header are the name and the name length of the central directory entry it
\* belongs to; a name of the input's local header that differs is not written.
C14_LocalHeaderNameIsCentralDirectoryName ==
    SerializedOk =>
        \A i \in 1..Len(cd_entries) :
            LET q == as_u64(cd_entries[i].local_header_position) IN
            /\ U16At(output, q + 26) = cd_entries[i].file_name_length
            /\ Slice(output, q + 30, cd_entries[i].file_name_length)
                   = cd_entries[i].file_name_raw

\* a flag word with bit 11 cleared
WithoutUtf8Flag(flags) == IF HasBit(flags, UTF8_FLAG_BIT) THEN flags - UTF8_FLAG_BIT ELSE flags

-----------------------------------------------------------------------------
(* Normalization *)

\* the step is a call of diagnose
DiagnoseCalled == pc = "loaded" /\ last'.op = "diagnose"

\* the entry is flagged UTF-8 and its name is valid UTF-8 in decomposed form
Decomposed(cd) ==
    /\ is_encoded_in_utf8(cd)
    /\ utf8_valid_from(cd.file_name_raw, 1)
    /\ compose_from_hfs_nfd(from_utf8_lossy(cd.file_name_raw)) /= from_utf8_lossy(cd.file_name_raw)

\* C16: for an entry flagged UTF-8 whose name is in decomposed form, diagnose
\* reports names that are not NFC, and convert replaces the name by the UTF-8
\* bytes of the composed string, with its length, and leaves bit 11 set; diagnose
\* then no longer reports the entry.
C16_DecomposedNamesAreComposed ==
    [][ /\ DiagnoseCalled =>
              ((\E i \in 1..Len(cd_entries) : Decomposed(cd_entries[i]))
                  => last'.diag.has_non_nfc_explicit_utf8_names)
        /\ ConvertCalled =>
              \A i \in 1..Len(cd_entries) :
                  Decomposed(cd_entries[i]) =>
                      /\ cd_entries'[i].file_name_raw =
                             as_bytes(compose_from_hfs_nfd(
                                          from_utf8_lossy(cd_entries[i].file_name_raw)))
                      /\ cd_entries'[i].file_name_raw /= cd_entries[i].file_name_raw
                      /\ cd_entries'[i].file_name_length = Len(cd_entries'[i].file_name_raw)
                      /\ is_encoded_in_utf8(cd_entries'[i])
                      /\ ~Decomposed(cd_entries'[i])
                      /\ ~diagnose_file_name_encoding(<<cd_entries'[i]>>)
                              .has_non_nfc_explicit_utf8_names ]_vars

\* C16 witness: diagnose after convert reports no name that is not NFC for an
\* archive whose input names U+0065 U+0301 under the UTF-8 flag, and the name is
\* now U+00E9
C16_Witness ==
    /\ last.op = "diagnose"
    /\ ~last.diag.has_non_nfc_explicit_utf8_names
    /\ \E i \in 1..Len(cd_entries) :
          /\ arch.entries[i].name = NAME_NFD
          /\ HasBit(arch.entries[i].flags, UTF8_FLAG_BIT)
          /\ cd_entries[i].file_name_raw = NAME_NFC
          /\ cd_entries[i].file_name_length = 2
          /\ is_encoded_in_utf8(cd_entries[i])

\* C17: after convert with any decoder, diagnose reports a universal archive,
\* neither implicit non-ASCII names nor explicit names that are not NFC, and
\* get_file_names_list lists every entry as explicit regular UTF-8.
C17_ConvertedArchiveIsUniversal ==
    [][ (last.op = "convert" /\ DiagnoseCalled) =>
          /\ ~last'.diag.has_implicit_non_ascii_names
          /\ ~last'.diag.has_non_nfc_explicit_utf8_names
          /\ is_universal_archive(last'.diag)
          /\ \A i \in 1..Len(cd_entries) :
                 get_file_names_list(cd_entries, last.dec)[i].encoding_type
                     = "ExplicitRegularUTF8" ]_vars

-----------------------------------------------------------------------------
(* Unsupported and damaged archives *)

\* the EOCD is that of one volume of a split archive
Split == eocd.eocd_disk_index /= 0 \/ eocd.n_cd_entries_in_disk /= eocd.n_cd_entries

\* a field of the EOCD holds the largest value of its width
Zip64 ==
    \/ U16_MAX \in { eocd.eocd_disk_index, eocd.cd_start_disk_index,
                     eocd.n_cd_entries_in_disk, eocd.n_cd_entries }
    \/ [lo |-> U16_MAX, hi |-> U16_MAX] \in { eocd.cd_size, eocd.cd_starting_position }

AnyEntryEncrypted ==
    \E i \in 1..Len(cd_entries) :
        HasBit(cd_entries[i].general_purpose_flags, DATA_ENCRYPTED_FLAG_BIT)

AtCdRecord == pc = "cd" /\ Len(cd_entries) < eocd.n_cd_entries

\* no central directory magic stands at the reader's position
CdMagicMissing == Remaining(input, cursor) < 4 \/ Slice(input, cursor, 4) /= CD_MAGIC

\* a record the loader supports stands at the reader's position, whose name,
\* extra field and comment are declared longer than the rest of the source
CdRecordDeclaresTooMuch ==
    /\ Remaining(input, cursor) >= 46
    /\ Slice(input, cursor, 4) = CD_MAGIC
    /\ ~HasBit(U16At(input, cursor + 8), DATA_ENCRYPTED_FLAG_BIT)
    /\ U16At(input, cursor + 34) = 0
    /\ U16At(input, cursor + 28) + U16At(input, cursor + 30) + U16At(input, cursor + 32)
           > Remaining(input, cursor + 46)

\* C19: the parse of a central directory record fails with InvalidZipArchive,
\* not with an I/O error, when the source holds fewer bytes than the record
\* declares for its name, extra field or comment, and when the central directory
\* magic is missing where the record is expected.
C19_ShortRecordIsInvalidZipArchive ==
    [][ (AtCdRecord /\ (CdMagicMissing \/ CdRecordDeclaresTooMuch)) =>
          (pc' = "failed" /\ error' = "InvalidZipArchive") ]_vars

\* C20: when the n_cd_entries records are parsed and the reader does not stand
\* on the signature of the EOCD, before it or past it, load fails with
\* UnsupportedZipArchive; it neither panics nor succeeds.
C20_CursorMismatchIsUnsupported ==
    [][ (/\ pc = "cd"
         /\ Len(cd_entries) = eocd.n_cd_entries
         /\ cursor /= eocd.starting_position_with_signature)
        => (pc' = "failed" /\ error' = "UnsupportedZipArchive") ]_vars

-----------------------------------------------------------------------------
(* What serialize has written when it fails *)

\* serialize has just failed on a local header of the input: its magic is missing
\* where the central directory places it, or it declares more bytes of name,
\* extra field or payload than the input holds
SerializeFailedOnStructure == last.op = "serialize" /\ error = "InvalidZipArchive"

\* C21: when serialize fails on a structural error of the input, a missing local
\* header magic or a local header that declares more bytes than there are, no
\* byte has been written to the output when the error is returned.
C21_StructuralErrorWritesNothing ==
    SerializeFailedOnStructure => output = <<>>

-----------------------------------------------------------------------------
(* diagnose *)

\* the name holds a byte above 0x7F
HasNonAsciiByte(name) == \E k \in 1..Len(name) : name[k] > 127

\* the text is not in composed form: it holds a letter followed by a combining
\* mark the two of which have a composed character (of the characters the names
\* of the inputs decode to: U+0065 with U+0300 or U+0301)
NotComposed(text) ==
    \E k \in 1..(Len(text) - 1) : text[k] = 101 /\ text[k + 1] \in {768, 769}

\* C22: diagnose leaves the archive unchanged; it reports implicit non-ASCII
\* names exactly when some entry without bit 11 has a name with a byte above
\* 0x7F, and explicit names that are not NFC exactly when some entry with bit
\* 11 has a name whose UTF-8 decoding is not in composed form; both are
\* computed from the entries as they are at the call.
C22_DiagnoseReportsCurrentEntries ==
    [][ DiagnoseCalled =>
          /\ UNCHANGED <<input, cursor, eocd, cd_entries, pc>>
          /\ last'.diag.has_implicit_non_ascii_names <=>
                 \E i \in 1..Len(cd_entries) :
                     /\ ~HasBit(cd_entries[i].general_purpose_flags, UTF8_FLAG_BIT)
                     /\ HasNonAsciiByte(cd_entries[i].file_name_raw)
          /\ last'.diag.has_non_nfc_explicit_utf8_names <=>
                 \E i \in 1..Len(cd_entries) :
                     /\ HasBit(cd_entries[i].general_purpose_flags, UTF8_FLAG_BIT)
                     /\ NotComposed(from_utf8_lossy(cd_entries[i].file_name_raw)) ]_vars

\* C22 witness: diagnose reports neither kind of name for an archive whose input
\* has both: the entries have been converted since the load
C22_Witness ==
    /\ last.op = "diagnose"
    /\ ~last.diag.has_implicit_non_ascii_names
    /\ ~last.diag.has_non_nfc_explicit_utf8_names
    /\ \E i \in 1..Len(arch.entries) :
          /\ ~HasBit(arch.entries[i].flags, UTF8_FLAG_BIT)
          /\ HasNonAsciiByte(arch.entries[i].name)
    /\ \E i \in 1..Len(arch.entries) :
          /\ HasBit(arch.entries[i].flags, UTF8_FLAG_BIT)
          /\ arch.entries[i].name = NAME_NFD

-----------------------------------------------------------------------------
(* Archives of explicit UTF-8 names and implicit ASCII names *)

\* the entries flagged UTF-8, and those that are not
Flagged(cds) == { i \in 1..Len(cds) : HasBit(cds[i].general_purpose_flags, UTF8_FLAG_BIT) }

Unflagged(cds) == (1..Len(cds)) \ Flagged(cds)

\* some entries are flagged UTF-8, some are not, and the names and comments of
\* those that are not are pure ASCII
MixesUtf8AndAscii(cds) ==
    /\ Flagged(cds) /= {}
    /\ Unflagged(cds) /= {}
    /\ \A i \in Unflagged(cds) :
          ~HasNonAsciiByte(cds[i].file_name_raw) /\ ~HasNonAsciiByte(cds[i].file_comment)

\* C23: for an archive that mixes entries flagged UTF-8, whose names may hold
\* non-ASCII bytes, with unflagged entries whose names and comments are pure
\* ASCII, check_file_name_encoding returns ExplicitUTF8AndASCII with n_utf8 the
\* number of flagged entries and n_ascii the number of unflagged ones, and
\* diagnose reports a universal archive when the flagged names are NFC.
C23_MixedUtf8AndAsciiIsFine ==
    [][ (/\ pc = "loaded"
         /\ last'.op = "check_file_name_encoding"
         /\ MixesUtf8AndAscii(cd_entries))
        => /\ last'.stat = Statistics("ExplicitUTF8AndASCII",
                                      Cardinality(Flagged(cd_entries)),
                                      Cardinality(Unflagged(cd_entries)), -1)
           /\ (\A i \in Flagged(cd_entries) :
                   ~NotComposed(from_utf8_lossy(cd_entries[i].file_name_raw)))
               => is_universal_archive(diagnose_file_name_encoding(cd_entries)) ]_vars

-----------------------------------------------------------------------------
(* serialize called again *)

\* C24: a serialize that follows a serialize that returned Ok, no other call
\* between them, returns Ok as well and writes the same bytes: the first call
\* does not change what the second reads from the source.
C24_SerializeTwiceSameOutput ==
    [][ (/\ pc = "loaded"
         /\ SerializedOk
         /\ last'.op = "serialize")
        => (error' = "none" /\ output' = output) ]_vars

-----------------------------------------------------------------------------
(* The output of serialize, loaded *)

\* the step is a serialize that returns Ok, called right after a convert
SerializeAfterConvert ==
    pc = "loaded" /\ last.op = "convert" /\ last'.op = "serialize" /\ error' = "none"

\* the archive new makes of the bytes out has the names, comments and flags of
\* the entries cds, in their order, and the EOCD comment of e
LoadsAs(out, cds, e) ==
    Let(InputZIPArchive_new(out), LAMBDA r :
        /\ r.kind = "Ok"
        /\ Len(r.cd_entries) = Len(cds)
        /\ \A i \in 1..Len(cds) :
              /\ r.cd_entries[i].file_name_raw = cds[i].file_name_raw
              /\ r.cd_entries[i].file_comment = cds[i].file_comment
              /\ r.cd_entries[i].general_purpose_flags = cds[i].general_purpose_flags
        /\ r.eocd.comment = e.comment
        /\ is_universal_archive(diagnose_file_name_encoding(r.cd_entries)))

\* C25: the output of serialize after convert loads: new succeeds on it and
\* yields as many entries, in the same order, with the name bytes, the comment
\* bytes and the flag words the entries of the archive have when serialize
\* returns, and the same EOCD comment, and diagnose reports it universal.
C25_OutputLoadsAsConverted ==
    [][ SerializeAfterConvert => LoadsAs(output', cd_entries', eocd') ]_vars

-----------------------------------------------------------------------------
(* The ASCII decoder *)

\* the characters a decoder puts where it cannot decode: U+FFFD, or '?'
ReplacementCharacters == {REPLACEMENT_CHARACTER, 63}

\* C26: the ASCII decoder's to_string_lossless returns a text exactly when
\* every byte of the input is at most 0x7F, and the bytes of that text are the
\* input; its to_string_lossy always returns a text, of one character per byte:
\* the byte where it is at most 0x7F, a replacement character elsewhere; where
\* to_string_lossless returns a text, to_string_lossy returns the same.
C26_AsciiDecoder ==
    /\ last.op = "to_string_lossless" =>
          /\ last.text.some <=> ~HasNonAsciiByte(input)
          /\ last.text.some => as_bytes(last.text.text) = input
    /\ last.op = "to_string_lossy" =>
          /\ last.text.some
          /\ Len(last.text.text) = Len(input)
          /\ \A k \in 1..Len(input) :
                IF input[k] <= 127 THEN last.text.text[k] = input[k]
                ELSE last.text.text[k] \in ReplacementCharacters
          /\ to_string_lossless("ASCII", input).some =>
                last.text = to_string_lossless("ASCII", input)

\* C26 witness: to_string_lossy of zifu_core returned a text for an input that
\* has an ASCII byte and a byte that is not, which to_string_lossless refuses
C26_Witness ==
    /\ last.op = "to_string_lossy"
    /\ last.cands = <<"zifu_core">>
    /\ input = <<65, 128, 127>>
    /\ last.text.text = <<65, REPLACEMENT_CHARACTER, 127>>
    /\ ~to_string_lossless("ASCII", input).some

-----------------------------------------------------------------------------
(* The record the locator returns *)

\* the locator has just returned a record
LocatorReturnsOk == LocatorReturns /\ pc' = "cd"

\* C27: every record the locator returns ends at the end of the file, its
\* signature position plus 22 plus its comment_length is the size of the source;
\* a candidate followed by fewer or by more bytes than the comment it declares
\* is never accepted.
C27_ReturnedRecordEndsAtEof ==
    [][ LocatorReturnsOk =>
          /\ eocd'.starting_position_with_signature + 22 + eocd'.comment_length = Len(input)
          /\ MagicAt(input, eocd'.starting_position_with_signature)
          /\ eocd'.comment_length = U16At(input, eocd'.starting_position_with_signature + 20) ]_vars

\* C27 witness: the locator returned a record after a candidate with all its
\* fixed fields that declares a comment longer or shorter than the rest of the file
C27_Witness ==
    /\ pc = "cd"
    /\ last.op = "new"
    /\ cd_entries = <<>>
    /\ eocd.starting_position_with_signature + 22 + eocd.comment_length = Len(input)
    /\ \E m \in 0..(eocd.starting_position_with_signature - 1) :
          /\ MagicAt(input, m)
          /\ m + 22 <= Len(input)
          /\ m + 22 + U16At(input, m + 20) /= Len(input)

\* the verifying record nearest to the end of the file
LastVerifying(s) == CHOOSE m \in VerifyingPositions(s) : \A k \in VerifyingPositions(s) : k <= m

\* C28: when more than one magic of the scan window verifies, as with a whole
\* EOCD record at the end of the comment of another, the locator returns the
\* last record that verifies, scanning toward the end of the file.
C28_ReturnsLastVerifying ==
    [][ (LocatorReturns /\ Cardinality(VerifyingPositions(input)) > 1) =>
          /\ pc' = "cd"
          /\ eocd'.starting_position_with_signature = LastVerifying(input) ]_vars

\* C29: the record the locator returns has a comment buffer of comment_length
\* bytes, the bytes that follow its fixed fields in the source, however many
\* candidates were rejected before it; written back it is the 22 +
\* comment_length bytes of the EOCD of the source.
C29_CommentIsThatOfAcceptedRecord ==
    [][ LocatorReturnsOk =>
          LET m == eocd'.starting_position_with_signature IN
          /\ Len(eocd'.comment) = eocd'.comment_length
          /\ eocd'.comment = TakeToEnd(input, m + 22, eocd'.comment_length)
          /\ Len(eocd_write(eocd')) = 22 + eocd'.comment_length
          /\ eocd_write(eocd') = TakeToEnd(input, m, 22 + eocd'.comment_length) ]_vars

-----------------------------------------------------------------------------
(* What convert leaves alone *)

\* the entry with its name, its comment, their lengths and its flag word
\* replaced by those of the entry other
WithTextOf(cd, other) ==
    [cd EXCEPT !.file_name_raw = other.file_name_raw,
               !.file_name_length = other.file_name_length,
               !.file_comment = other.file_comment,
               !.file_comment_length = other.file_comment_length,
               !.general_purpose_flags = other.general_purpose_flags]

\* C30: convert changes nothing but, in each entry, the name and its length,
\* the comment and its length, and flag bit 11: the entries keep their number
\* and order and every other field, the other flag bits too; the EOCD, the
\* input and the reader's position stay as they are; an entry already flagged
\* UTF-8 keeps its comment and its flags.
C30_ConvertFrame ==
    [][ ConvertCalled =>
          /\ UNCHANGED <<eocd, input, cursor, pc>>
          /\ Len(cd_entries') = Len(cd_entries)
          /\ \A i \in 1..Len(cd_entries) :
                /\ WithTextOf(cd_entries'[i], cd_entries[i]) = cd_entries[i]
                /\ WithoutUtf8Flag(cd_entries'[i].general_purpose_flags)
                       = WithoutUtf8Flag(cd_entries[i].general_purpose_flags)
                /\ HasBit(cd_entries[i].general_purpose_flags, UTF8_FLAG_BIT) =>
                       /\ cd_entries'[i].file_comment = cd_entries[i].file_comment
                       /\ cd_entries'[i].file_comment_length = cd_entries[i].file_comment_length
                       /\ cd_entries'[i].general_purpose_flags
                              = cd_entries[i].general_purpose_flags ]_vars

\* C30 witness: convert with the Shift_JIS decoder has composed the name of an
\* entry flagged UTF-8 and kept its comment, which that decoder decodes to
\* other characters, and has rewritten an entry that was not flagged, whose
\* payload size and local header position are those of the input
C30_Witness ==
    /\ last.op = "convert"
    /\ last.dec = "SJIS"
    /\ Len(cd_entries) = 2
    /\ arch.entries[1] = ES
    /\ cd_entries[1].file_name_raw = <<227, 131, 134>>
    /\ cd_entries[1].local_header_position = as_u32(LfhOffset(arch, 1))
    /\ cd_entries[1].general_purpose_flags = UTF8_FLAG_BIT
    /\ HasBit(arch.entries[2].flags, UTF8_FLAG_BIT)
    /\ arch.entries[2].comment = NAME_NFC
    /\ cd_entries[2].file_comment = NAME_NFC
    /\ cd_entries[2].general_purpose_flags = arch.entries[2].flags

====
